---- MODULE Spec2Model ----
(***************************************************************************)
(* A model of the sports facility booking module (models/booking.py,       *)
(* models/equipment.py, models/membership.py, models/waitlist.py).         *)
(*                                                                         *)
(* Conventions.                                                            *)
(*  - A datetime is a whole number of minutes since midnight of day 0; a   *)
(*    date is a day number.  The booking form posts minute-granular        *)
(*    datetimes.                                                           *)
(*  - Money is a whole number of cents, a duration a whole number of       *)
(*    hundredths of an hour (both fields are rounded to 2 decimals).       *)
(*  - Every handler runs in one database transaction: an exception that    *)
(*    leaves the handler discards every write the handler made.  Writes    *)
(*    made before the exception are still modelled step by step, so that   *)
(*    what is discarded is visible in the definitions.                     *)
(*  - last records the outcome of the most recent call, pre the stock      *)
(*    levels a successful action_confirm started from.                     *)
(***************************************************************************)
EXTENDS Integers, Sequences, FiniteSets, TLC

VARIABLES bookings, equipment, waitlist, memberships, timeslots, uid, txns, gen,
          now, last

vars ==
    <<bookings, equipment, waitlist, memberships, timeslots, uid, txns, gen,
      now, last>>

-----------------------------------------------------------------------------
(* Bounds of the model *)

MaxBookings == 2

\* Bookings a recurrence of more than two occurrences may add beyond those
MaxChildren == 2

\* Cancellation notes a booking gets by being cancelled, and the notes a
\* cancelled booking gets beyond those by being cancelled again
MaxNotes == 1
MaxRecancels == 1

MaxWaitlist == 2
MaxMemberships == 2

MaxTimeslots == 2
MaxTxns == 2
MaxIterations == 4

-----------------------------------------------------------------------------
(* Time *)

MinutesPerHour == 60
HoursPerDay == 24
Day == MinutesPerHour * HoursPerDay

\* start_datetime.date()
DateOf(t) == t \div Day

\* start_datetime.hour + start_datetime.minute / 60.0, in minutes
TimeOfDay(t) == t % Day

At(day, hour) == day * Day + hour * MinutesPerHour

NoDate == -1

-----------------------------------------------------------------------------
(* Master data: facilities, equipment, customers *)

Facilities == {"tennis", "basket"}

Customers == {"alice", "bob"}

EquipmentIds == {"racket", "balls"}

\* sports.facility records (the tests' set-up values), rate in cents per hour
facility_id(f) ==
    IF f = "tennis"
    THEN [hourly_rate |-> 2500,
          operating_hours_start |-> 8 * MinutesPerHour,
          operating_hours_end |-> 20 * MinutesPerHour]
    ELSE [hourly_rate |-> 2000,
          operating_hours_start |-> 8 * MinutesPerHour,
          operating_hours_end |-> 20 * MinutesPerHour]

\* sports.equipment master fields, rate in cents per hour
rental_rate(e) == IF e = "racket" THEN 500 ELSE 200

total_quantity(e) == IF e = "racket" THEN 2 ELSE 1

-----------------------------------------------------------------------------
(* Arithmetic *)

\* float_round(n / d, precision_digits=0): nearest integer, halves away from 0
RoundHalfUp(n, d) ==
    IF n >= 0 THEN (2 * n + d) \div (2 * d)
    ELSE 0 - ((2 * (0 - n) + d) \div (2 * d))

Max(a, b) == IF a >= b THEN a ELSE b

RECURSIVE SumOver(_, _)
\* sum of g[x] over the finite set S
SumOver(S, g) ==
    IF S = {} THEN 0
    ELSE LET x == CHOOSE y \in S : TRUE
         IN  g[x] + SumOver(S \ {x}, g)

-----------------------------------------------------------------------------
(* Computed fields of sports.booking *)

\* duration in hundredths of an hour
compute_duration(start, end) ==
    RoundHalfUp((end - start) * 100, MinutesPerHour)

\* A search that does not ask whether the membership is paid
search_active_membership_unpaid(ms, customer, start) ==
    {i \in DOMAIN ms :
        /\ ms[i].member_id = customer
        /\ ms[i].status = "active"
        /\ ms[i].start_date <= DateOf(start)
        /\ ms[i].end_date >= DateOf(start)}

\* The memberships the search of _compute_total_cost matches
search_active_membership(ms, customer, start) ==
    {i \in DOMAIN ms :
        /\ ms[i].member_id = customer
        /\ ms[i].status = "active"
        /\ ms[i].start_date <= DateOf(start)
        /\ ms[i].end_date >= DateOf(start)
        /\ ms[i].payment_status = "paid"}

\* limit=1 under _order = 'start_date desc': a match of greatest start_date
\* (the database orders equal start dates arbitrarily)
first_membership(ms, customer, start) ==
    LET found == search_active_membership(ms, customer, start)
    IN  {i \in found : \A j \in found : ms[j].start_date <= ms[i].start_date}

\* A cost that leaves the equipment out
compute_total_cost_facility_only(f, eqs, duration, ms, picked) ==
    LET total == facility_id(f).hourly_rate * duration
        discount_percentage ==
            IF picked = 0 THEN 0 ELSE ms[picked].discount_percentage
    IN  RoundHalfUp(Max(0, total * 100 - total * discount_percentage),
                    100 * 100)

\* discount_percentage is the membership picked (0 = none found)
compute_total_cost(f, eqs, duration, ms, picked) ==
    LET facility_cost ==
            IF duration # 0 THEN facility_id(f).hourly_rate * duration ELSE 0
        equipment_cost ==
            IF eqs # {} /\ duration # 0
            THEN SumOver(eqs, [e \in eqs |-> rental_rate(e) * duration])
            ELSE 0
        total == facility_cost + equipment_cost
        discount_percentage ==
            IF picked = 0 THEN 0 ELSE ms[picked].discount_percentage
        discounted ==
            IF discount_percentage > 0 /\ total > 0
            THEN total * 100 - total * discount_percentage
            ELSE total * 100
    IN  RoundHalfUp(Max(0, discounted), 100 * 100)

\* The record the search returns, 0 for none: tie is the record the database
\* happens to list first among equal start dates
pick_membership(ms, customer, start, tie) ==
    LET first == first_membership(ms, customer, start)
    IN  IF first = {} THEN 0
        ELSE IF tie \in first THEN tie
        ELSE CHOOSE i \in first : \A j \in first : i <= j

-----------------------------------------------------------------------------
(* Constraints of sports.booking *)

ActiveStatuses == {"draft", "confirmed"}

\* A search that leaves the draft bookings out
overlapping_confirmed_only(bs, self, f, start, end) ==
    {i \in DOMAIN bs :
        /\ i # self
        /\ bs[i].active
        /\ bs[i].facility_id = f
        /\ bs[i].status = "confirmed"
        /\ bs[i].start_datetime < end
        /\ bs[i].end_datetime > start}

\* The search of the enclosed bookings only
overlapping_enclosed_only(bs, self, f, start, end) ==
    {i \in DOMAIN bs :
        /\ i # self
        /\ bs[i].active
        /\ bs[i].facility_id = f
        /\ bs[i].status \in ActiveStatuses
        /\ bs[i].start_datetime >= start
        /\ bs[i].end_datetime <= end}

\* The search domain of check_facility_availability for record r with id self
\* (self = 0: no record excluded); archived bookings are not searched
overlapping(bs, self, f, start, end) ==
    {i \in DOMAIN bs :
        /\ i # self
        /\ bs[i].active
        /\ bs[i].facility_id = f
        /\ bs[i].status \in ActiveStatuses
        /\ bs[i].start_datetime < end
        /\ bs[i].end_datetime > start}

\* A constraint that never finds the facility taken
check_facility_availability_skipped(bs, self) == TRUE

check_facility_availability(bs, self) ==
    overlapping(bs, self, bs[self].facility_id,
                bs[self].start_datetime, bs[self].end_datetime) = {}

\* A constraint that lets a booking end when it starts
validate_booking_dates_or_equal(r) == ~(r.end_datetime < r.start_datetime)

validate_booking_dates(r) == ~(r.end_datetime <= r.start_datetime)

validate_operating_hours(r) ==
    /\ ~(TimeOfDay(r.start_datetime)
            < facility_id(r.facility_id).operating_hours_start)
    /\ ~(TimeOfDay(r.end_datetime)
            > facility_id(r.facility_id).operating_hours_end)

\* The constraints record self of bs violates
ConstraintErrors(bs, self) ==
    (IF check_facility_availability(bs, self) THEN {} ELSE {"overlap"})
    \cup (IF validate_booking_dates(bs[self]) THEN {} ELSE {"dates"})
    \cup (IF validate_operating_hours(bs[self]) THEN {} ELSE {"hours"})

-----------------------------------------------------------------------------
(* Outcome of a call *)

NoSnapshot == <<>>

\* arg is the quantity argument of an equipment call, the values validated
\* by a create or write of a booking, how the mails of action_confirm and
\* action_cancel ended, what a scheduled action found, and 0 for other calls
Outcome(op, id, arg, ok, errs, pre) ==
    [op |-> op, id |-> id, arg |-> arg, ok |-> ok, errs |-> errs, pre |-> pre]

Done(op, id) == last' = Outcome(op, id, 0, TRUE, {}, NoSnapshot)

\* The exception leaves the handler: the transaction is rolled back
RaiseIn(op, id, arg, errs) ==
    /\ last' = Outcome(op, id, arg, FALSE, errs, NoSnapshot)
    /\ UNCHANGED <<bookings, equipment, waitlist, memberships, now,
                   timeslots, uid, txns, gen>>

Raise(op, id, errs) == RaiseIn(op, id, 0, errs)

\* The fields of booking record r that its constraints read
Vals(r) ==
    [facility_id |-> r.facility_id, start_datetime |-> r.start_datetime,
     end_datetime |-> r.end_datetime]

DoneOn(op, id, r) == last' = Outcome(op, id, Vals(r), TRUE, {}, NoSnapshot)

-----------------------------------------------------------------------------
(* State *)

\* The database transactions that run side by side, and one that has not
\* begun
TxnIds == 1..MaxTxns

NoTxn == [pc |-> "idle", vals |-> <<>>, seen |-> 0]

\* No generate_recurring_bookings call under way
NoGen ==
    [pc |-> "idle", self |-> 0, current_start |-> 0, current_end |-> 0,
     occurrence_count |-> 0, created |-> 0, failed |-> 0]

NoRecurrence ==
    [is_recurring |-> FALSE, recurrence_type |-> "none",
     recurrence_count |-> 1, recurrence_end_date |-> NoDate]

Init ==
    /\ bookings = <<>>
    /\ equipment = [e \in EquipmentIds |->
                       [quantity_available |-> total_quantity(e),
                        total_quantity |-> total_quantity(e)]]
    /\ waitlist = <<>>
    /\ memberships = <<>>
    /\ timeslots = <<>>
    /\ uid = "superuser"
    /\ txns = [t \in TxnIds |-> NoTxn]
    /\ gen = NoGen
    /\ now = 0
    /\ last = Outcome("init", 0, 0, TRUE, {}, NoSnapshot)

\* The record create() stores for vals, with its computed fields
NewBooking(f, c, start, end, eqs, status, rec, notes, parent, picked) ==
    [facility_id |-> f,
     customer_id |-> c,
     start_datetime |-> start,
     end_datetime |-> end,
     duration |-> compute_duration(start, end),
     total_cost |-> compute_total_cost(f, eqs, compute_duration(start, end),
                                       memberships, picked),
     status |-> status,
     equipment_ids |-> eqs,
     notes |-> notes,
     active |-> TRUE,
     is_recurring |-> rec.is_recurring,
     recurrence_type |-> rec.recurrence_type,
     recurrence_count |-> rec.recurrence_count,
     recurrence_end_date |-> rec.recurrence_end_date,
     parent_booking_id |-> parent,
     reminders |-> 0]

\* sports.booking create(vals)
create(f, c, start, end, eqs, status, rec, tie) ==
    /\ Len(bookings) < MaxBookings
    /\ LET id == Len(bookings) + 1
           picked == pick_membership(memberships, c, start, tie)
           r == NewBooking(f, c, start, end, eqs, status, rec, <<>>, 0, picked)
           bs == Append(bookings, r)
           errs == ConstraintErrors(bs, id)
       IN  IF errs # {}
           THEN RaiseIn("create", 0, Vals(r), errs)
           ELSE /\ bookings' = bs
                /\ DoneOn("create", id, r)
                /\ UNCHANGED <<equipment, waitlist, memberships, now,
                               timeslots, uid, txns, gen>>

\* write({'start_datetime', 'end_datetime', 'facility_id'}) on booking b:
\* duration and total_cost are recomputed, the three constraints run
write_schedule(b, f, start, end, tie) ==
    /\ b \in DOMAIN bookings
    /\ LET picked == pick_membership(memberships, bookings[b].customer_id,
                                     start, tie)
           d == compute_duration(start, end)
           bs == [bookings EXCEPT
                    ![b].facility_id = f,
                    ![b].start_datetime = start,
                    ![b].end_datetime = end,
                    ![b].duration = d,
                    ![b].total_cost =
                        compute_total_cost(f, bookings[b].equipment_ids, d,
                                           memberships, picked)]
           errs == ConstraintErrors(bs, b)
       IN  IF errs # {}
           THEN RaiseIn("write", b, Vals(bs[b]), errs)
           ELSE /\ bookings' = bs
                /\ DoneOn("write", b, bs[b])
                /\ UNCHANGED <<equipment, waitlist, memberships, now,
                               timeslots, uid, txns, gen>>

\* write({'status': status}) on booking b: of the constraints only
\* check_facility_availability names the field
write_status(b, status) ==
    /\ b \in DOMAIN bookings
    /\ LET bs == [bookings EXCEPT ![b].status = status]
       IN  IF ~check_facility_availability(bs, b)
           THEN RaiseIn("write", b, Vals(bs[b]), {"overlap"})
           ELSE /\ bookings' = bs
                /\ DoneOn("write", b, bs[b])
                /\ UNCHANGED <<equipment, waitlist, memberships, now,
                               timeslots, uid, txns, gen>>

-----------------------------------------------------------------------------
(* sports.equipment *)

check_availability(eq, e, quantity) == eq[e].quantity_available >= quantity

\* _sql_constraints and _check_quantities, run when a quantity is written
check_quantities(r) ==
    /\ r.quantity_available >= 0
    /\ r.total_quantity >= 0
    /\ ~(r.quantity_available > r.total_quantity)

\* A checkout that is never refused
checkout_raises_never(eq, e, quantity) == FALSE

checkout_raises(eq, e, quantity) ==
    \/ ~check_availability(eq, e, quantity)
    \/ ~check_quantities([eq[e] EXCEPT !.quantity_available = @ - quantity])

\* A checkout that takes nothing from the stock
checkout_equipment_kept(eq, e, quantity) == eq

\* The stock after checkout_equipment(quantity) on e; unchanged when it raises
checkout_equipment(eq, e, quantity) ==
    IF checkout_raises(eq, e, quantity) THEN eq
    ELSE [eq EXCEPT ![e].quantity_available = @ - quantity]

\* A return that is never refused
return_raises_never(eq, e, quantity) == FALSE

return_raises(eq, e, quantity) ==
    \/ eq[e].quantity_available + quantity > eq[e].total_quantity
    \/ ~check_quantities([eq[e] EXCEPT !.quantity_available = @ + quantity])

\* A return that brings nothing back to the stock
return_equipment_kept(eq, e, quantity) == eq

\* The stock after return_equipment(quantity) on e; unchanged when it raises
return_equipment(eq, e, quantity) ==
    IF return_raises(eq, e, quantity) THEN eq
    ELSE [eq EXCEPT ![e].quantity_available = @ + quantity]

RECURSIVE checkout_loop(_, _)
\* for equipment in record.equipment_ids: try checkout_equipment(quantity=1)
checkout_loop(eq, todo) ==
    IF todo = {} THEN [equipment |-> eq, errors |-> {}]
    ELSE LET e == CHOOSE x \in todo : TRUE
             rest == checkout_loop(checkout_equipment(eq, e, 1), todo \ {e})
         IN  [equipment |-> rest.equipment,
              errors |-> rest.errors
                         \cup (IF checkout_raises(eq, e, 1) THEN {e} ELSE {})]

RECURSIVE return_loop(_, _)
\* for equipment in record.equipment_ids: try return_equipment(quantity=1)
return_loop(eq, todo) ==
    IF todo = {} THEN [equipment |-> eq, errors |-> {}]
    ELSE LET e == CHOOSE x \in todo : TRUE
             rest == return_loop(return_equipment(eq, e, 1), todo \ {e})
         IN  [equipment |-> rest.equipment,
              errors |-> rest.errors
                         \cup (IF return_raises(eq, e, 1) THEN {e} ELSE {})]

Stock(eq) == [e \in EquipmentIds |-> eq[e].quantity_available]

\* equipment.checkout_equipment(quantity) called on its own
call_checkout_equipment(e, quantity) ==
    IF checkout_raises(equipment, e, quantity)
    THEN RaiseIn("checkout_equipment", e, quantity, {"quantity"})
    ELSE /\ equipment' = checkout_equipment(equipment, e, quantity)
         /\ last' = Outcome("checkout_equipment", e, quantity, TRUE, {}, NoSnapshot)
         /\ UNCHANGED <<bookings, waitlist, memberships, now, timeslots,
                        uid, txns, gen>>

\* equipment.return_equipment(quantity) called on its own
call_return_equipment(e, quantity) ==
    IF return_raises(equipment, e, quantity)
    THEN RaiseIn("return_equipment", e, quantity, {"quantity"})
    ELSE /\ equipment' = return_equipment(equipment, e, quantity)
         /\ last' = Outcome("return_equipment", e, quantity, TRUE, {}, NoSnapshot)
         /\ UNCHANGED <<bookings, waitlist, memberships, now, timeslots,
                        uid, txns, gen>>

\* equipment.quantity_available = quantity (a stock correction by staff)
write_quantity_available(e, quantity) ==
    IF ~check_quantities([equipment[e] EXCEPT !.quantity_available = quantity])
    THEN RaiseIn("write_quantity", e, quantity, {"quantity"})
    ELSE /\ equipment' = [equipment EXCEPT ![e].quantity_available = quantity]
         /\ last' = Outcome("write_quantity", e, quantity, TRUE, {}, NoSnapshot)
         /\ UNCHANGED <<bookings, waitlist, memberships, now, timeslots,
                        uid, txns, gen>>

-----------------------------------------------------------------------------
(* Recurrence *)

\* Days of the months of a year (model years are not leap years)
MonthLength == <<31, 28, 31, 30, 31, 30, 31, 31, 30, 31, 30, 31>>

RECURSIVE DaysBefore(_)
\* Days of the year before the first of month m (m = 13: the whole year)
DaysBefore(m) == IF m = 1 THEN 0 ELSE DaysBefore(m - 1) + MonthLength[m - 1]

YearLength == DaysBefore(13)

MonthOfDay(doy) ==
    CHOOSE m \in 1..12 : DaysBefore(m) <= doy /\ doy < DaysBefore(m + 1)

\* t + relativedelta(months=1): the same day of the next month, or that
\* month's last day when it is shorter
add_month(t) ==
    LET date == DateOf(t)
        year == date \div YearLength
        doy == date % YearLength
        month == MonthOfDay(doy)
        dom == doy - DaysBefore(month) + 1
        month2 == IF month = 12 THEN 1 ELSE month + 1
        year2 == IF month = 12 THEN year + 1 ELSE year
        dom2 == IF dom > MonthLength[month2] THEN MonthLength[month2] ELSE dom
    IN  (year2 * YearLength + DaysBefore(month2) + dom2 - 1) * Day
        + TimeOfDay(t)

next_occurrence(recurrence_type, t) ==
    IF recurrence_type = "daily" THEN t + Day
    ELSE IF recurrence_type = "weekly" THEN t + 7 * Day
    ELSE add_month(t)

RECURSIVE recurrence_loop(_, _, _, _, _, _, _, _)
\* The while True loop of generate_recurring_bookings, from the state its
\* previous iteration left
recurrence_loop(bs, self, tie, current_start, current_end, occurrence_count, created, failed) ==
    LET p == bs[self]
        cs == next_occurrence(p.recurrence_type, current_start)
        ce == next_occurrence(p.recurrence_type, current_end)
        occ == occurrence_count + 1
        stop == [bookings |-> bs, created |-> created, failed |-> failed]
        child == NewBooking(p.facility_id, p.customer_id, cs, ce,
                            p.equipment_ids, "draft", NoRecurrence,
                            <<[kind |-> "occurrence", occurrence |-> occ,
                               parent |-> self]>>,
                            self,
                            pick_membership(memberships, p.customer_id, cs,
                                            tie))
        with_child == Append(bs, child)
    IN  IF p.recurrence_count # 0 /\ occ >= p.recurrence_count THEN stop
        ELSE IF /\ p.recurrence_end_date # NoDate
                /\ DateOf(cs) > p.recurrence_end_date THEN stop
        ELSE IF overlapping(bs, 0, p.facility_id, cs, ce) # {}
        THEN recurrence_loop(bs, self, tie, cs, ce, occ, created, failed + 1)
        ELSE IF ConstraintErrors(with_child, Len(with_child)) # {}
        THEN recurrence_loop(bs, self, tie, cs, ce, occ, created, failed + 1)
        ELSE recurrence_loop(with_child, self, tie, cs, ce, occ, created + 1,
                             failed)

\* A generation that leaves its children recurring
generate_recurring_bookings_recurring(bs, self, tie) ==
    LET p == bs[self]
        g == recurrence_loop(bs, self, tie, p.start_datetime, p.end_datetime,
                             0, 0, 0)
    IN  [raised |-> g.created = 0 /\ g.failed > 0,
         bookings |-> [i \in DOMAIN g.bookings |->
                         IF i \in DOMAIN bs THEN g.bookings[i]
                         ELSE [g.bookings[i] EXCEPT !.is_recurring = TRUE]]]

\* A generation that never raises
generate_recurring_bookings_silent(bs, self, tie) ==
    LET p == bs[self]
        g == recurrence_loop(bs, self, tie, p.start_datetime, p.end_datetime,
                             0, 0, 0)
    IN  [raised |-> FALSE, bookings |-> g.bookings]

\* generate_recurring_bookings on booking self of bs: whether it raises, and
\* the bookings it leaves
generate_recurring_bookings(bs, self, tie) ==
    LET p == bs[self]
        raised == [raised |-> TRUE, bookings |-> bs]
        g == recurrence_loop(bs, self, tie, p.start_datetime, p.end_datetime,
                             0, 0, 0)
    IN  IF ~p.is_recurring THEN raised
        ELSE IF p.recurrence_type = "none" THEN raised
        ELSE IF p.recurrence_count = 0 /\ p.recurrence_end_date = NoDate
        THEN raised
        ELSE IF g.created = 0 /\ g.failed > 0 THEN raised
        ELSE IF g.failed > 0
        THEN [raised |-> FALSE,
              bookings |-> [g.bookings EXCEPT ![self].notes =
                              Append(@, [kind |-> "recurrence",
                                         created |-> g.created,
                                         failed |-> g.failed])]]
        ELSE [raised |-> FALSE, bookings |-> g.bookings]

\* The bounds of the model on what a handler may store
WithinBounds(bs) ==
    /\ Len(bs) <= MaxBookings
                    + (IF \E i \in DOMAIN bs :
                              \/ bs[i].recurrence_count > 2
                              \/ bs[i].recurrence_end_date # NoDate
                       THEN MaxChildren ELSE 0)
    /\ \A i \in DOMAIN bs : Len(bs[i].notes) <= MaxNotes + MaxRecancels

\* booking.generate_recurring_bookings() called on its own
call_generate_recurring_bookings(b, tie) ==
    /\ b \in DOMAIN bookings
    /\ LET g == generate_recurring_bookings(bookings, b, tie)
       IN  IF g.raised
           THEN Raise("generate_recurring_bookings", b, {"recurrence"})
           ELSE /\ WithinBounds(g.bookings)
                /\ bookings' = g.bookings
                /\ Done("generate_recurring_bookings", b)
                /\ UNCHANGED <<equipment, waitlist, memberships, now,
                               timeslots, uid, txns, gen>>

-----------------------------------------------------------------------------
(* Status actions of sports.booking *)

\* The status guards of the four actions
\* Guards that let every status through
confirm_allowed_any(status) == TRUE

cancel_allowed_any(status) == TRUE

reset_allowed_any(status) == TRUE

confirm_allowed(status) == status = "draft"

complete_allowed(status) == status = "confirmed"

cancel_allowed(status) == ~(status = "completed")

reset_allowed(status) == ~(status = "completed")

\* How a template.send_mail call ends
MailOutcomes == {"sent", "failed"}

\* A send whose failure leaves the handler
send_mail_raises_on_failure(mail) == mail = "failed"

\* try: template.send_mail(...) except Exception: _logger.error(...): the
\* failure is logged and goes no further
send_mail_raises(mail) == FALSE

\* booking.action_confirm(); mail is how the confirmation mail ends
action_confirm(b, tie, mail) ==
    /\ b \in DOMAIN bookings
    /\ LET record == bookings[b]
           checkout == checkout_loop(equipment, record.equipment_ids)
           confirmed == [bookings EXCEPT ![b].status = "confirmed"]
           generated == generate_recurring_bookings(confirmed, b, tie)
           result == IF record.is_recurring THEN generated.bookings
                     ELSE confirmed
       IN  IF ~confirm_allowed(record.status)
           THEN Raise("action_confirm", b, {"status"})
           ELSE IF overlapping(bookings, b, record.facility_id,
                               record.start_datetime,
                               record.end_datetime) # {}
           THEN Raise("action_confirm", b, {"overlap"})
           ELSE IF checkout.errors # {}
           THEN Raise("action_confirm", b, {"equipment"})
           ELSE IF ~check_facility_availability(confirmed, b)
           THEN Raise("action_confirm", b, {"overlap"})
           ELSE IF send_mail_raises(mail)
           THEN Raise("action_confirm", b, {"mail"})
           ELSE IF record.is_recurring /\ generated.raised
           THEN Raise("action_confirm", b, {"recurrence"})
           ELSE /\ WithinBounds(result)
                /\ bookings' = result
                /\ equipment' = checkout.equipment
                /\ last' = Outcome("action_confirm", b, mail, TRUE, {},
                                   Stock(equipment))
                /\ UNCHANGED <<waitlist, memberships, now, timeslots,
                               uid, txns, gen>>

\* booking.action_complete()
action_complete(b) ==
    /\ b \in DOMAIN bookings
    /\ LET record == bookings[b]
           returned == return_loop(equipment, record.equipment_ids)
           completed == [bookings EXCEPT ![b].status = "completed"]
       IN  IF ~complete_allowed(record.status)
           THEN Raise("action_complete", b, {"status"})
           ELSE IF returned.errors # {}
           THEN Raise("action_complete", b, {"equipment"})
           ELSE IF ~check_facility_availability(completed, b)
           THEN Raise("action_complete", b, {"overlap"})
           ELSE /\ bookings' = completed
                /\ equipment' = returned.equipment
                /\ Done("action_complete", b)
                /\ UNCHANGED <<waitlist, memberships, now, timeslots,
                               uid, txns, gen>>

\* The refund policy of action_cancel, by the minutes left until the start
\* A policy whose tiers begin after 48, 24 and 12 hours
refund_percentage_after(original_status, total_cost, start, clock) ==
    IF original_status = "confirmed" /\ total_cost > 0 /\ start > clock
    THEN IF start - clock > 48 * MinutesPerHour THEN 100
         ELSE IF start - clock > 24 * MinutesPerHour THEN 50
         ELSE IF start - clock > 12 * MinutesPerHour THEN 25
         ELSE 0
    ELSE 0

\* A policy that does not ask whether the booking was confirmed
refund_percentage_any_status(original_status, total_cost, start, clock) ==
    IF total_cost > 0 /\ start > clock
    THEN IF start - clock >= 48 * MinutesPerHour THEN 100
         ELSE IF start - clock >= 24 * MinutesPerHour THEN 50
         ELSE IF start - clock >= 12 * MinutesPerHour THEN 25
         ELSE 0
    ELSE 0

refund_percentage(original_status, total_cost, start, clock) ==
    IF original_status = "confirmed" /\ total_cost > 0 /\ start > clock
    THEN IF start - clock >= 48 * MinutesPerHour THEN 100
         ELSE IF start - clock >= 24 * MinutesPerHour THEN 50
         ELSE IF start - clock >= 12 * MinutesPerHour THEN 25
         ELSE 0
    ELSE 0

\* '%.2f' % amount, for an amount in hundredths of a cent: the cents printed;
\* an amount half way between two cents is printed as its binary value falls
format_amount(n) ==
    IF n % 100 = 50 THEN {n \div 100, n \div 100 + 1}
    ELSE {RoundHalfUp(n, 100)}

\* A search that does not look at the preferred date
waiting_customers_any_date(ws, f, start) ==
    {i \in DOMAIN ws : ws[i].facility_id = f /\ ws[i].status = "waiting"}

\* The waiting entries the search of auto_assign_from_waitlist matches
waiting_customers(ws, f, start) ==
    {i \in DOMAIN ws :
        /\ ws[i].facility_id = f
        /\ ws[i].status = "waiting"
        /\ \/ ws[i].preferred_date = NoDate
           \/ /\ ws[i].preferred_date >= DateOf(start) - 2
              /\ ws[i].preferred_date <= DateOf(start) + 2}

\* A search that returns its matches in any order
first_waiting_unordered(ws, f, start) == waiting_customers(ws, f, start)

\* order='create_date asc', limit=1: a match of least create_date (the
\* database orders equal create dates arbitrarily)
first_waiting(ws, f, start) ==
    LET found == waiting_customers(ws, f, start)
    IN  {i \in found : \A j \in found : ws[i].create_date <= ws[j].create_date}

\* The waitlist after auto_assign_from_waitlist notified entry w (0 = none)
auto_assign_from_waitlist(ws, w, clock) ==
    IF w = 0 THEN ws
    ELSE [ws EXCEPT ![w].status = "notified",
                    ![w].notification_sent = TRUE,
                    ![w].write_date = clock]

\* booking.action_cancel(); mail is how the cancellation mail ends,
\* notification how the mail to the waitlist entry found ends; recancels
\* bounds the notes a cancelled booking gets by being cancelled again
action_cancel_within(b, mail, notification, recancels) ==
    /\ b \in DOMAIN bookings
    /\ LET record == bookings[b]
           original_status == record.status
           returned == IF original_status = "confirmed"
                       THEN return_loop(equipment, record.equipment_ids)
                       ELSE [equipment |-> equipment, errors |-> {}]
           percentage == refund_percentage(original_status, record.total_cost,
                                           record.start_datetime, now)
           note(amount) == [kind |-> "cancellation",
                            refund_percentage |-> percentage,
                            refund_amount |-> amount]
           cancelled(amount) ==
               [bookings EXCEPT ![b].status = "cancelled",
                                ![b].notes = Append(@, note(amount))]
           first == first_waiting(waitlist, record.facility_id,
                                  record.start_datetime)
       IN  IF ~cancel_allowed(original_status)
           THEN Raise("action_cancel", b, {"status"})
           ELSE IF returned.errors # {}
           THEN Raise("action_cancel", b, {"equipment"})
           ELSE IF ~check_facility_availability(cancelled(0), b)
           THEN Raise("action_cancel", b, {"overlap"})
           ELSE IF send_mail_raises(mail)
           THEN Raise("action_cancel", b, {"mail"})
           ELSE IF first # {} /\ send_mail_raises(notification)
           THEN Raise("action_cancel", b, {"mail"})
           ELSE /\ WithinBounds(cancelled(0))
                /\ Len(record.notes) < MaxNotes
                                        + (IF original_status = "cancelled"
                                           THEN recancels ELSE 0)
                /\ \E amount \in format_amount(record.total_cost * percentage) :
                     bookings' = cancelled(amount)
                /\ equipment' = returned.equipment
                /\ \E w \in (IF first = {} THEN {0} ELSE first) :
                     waitlist' = auto_assign_from_waitlist(waitlist, w, now)
                /\ last' = Outcome("action_cancel", b,
                                   [mail |-> mail,
                                    notification |->
                                       IF first = {} THEN "none"
                                       ELSE notification],
                                   TRUE, {}, NoSnapshot)
                /\ UNCHANGED <<memberships, now, timeslots, uid, txns, gen>>

\* booking.action_cancel(), no cancelled booking being cancelled again
action_cancel(b, mail, notification) ==
    action_cancel_within(b, mail, notification, 0)

\* booking.action_reset_to_draft()
action_reset_to_draft(b) ==
    /\ b \in DOMAIN bookings
    /\ LET draft == [bookings EXCEPT ![b].status = "draft"]
       IN  IF ~reset_allowed(bookings[b].status)
           THEN Raise("action_reset_to_draft", b, {"status"})
           ELSE IF ~check_facility_availability(draft, b)
           THEN Raise("action_reset_to_draft", b, {"overlap"})
           ELSE /\ bookings' = draft
                /\ Done("action_reset_to_draft", b)
                /\ UNCHANGED <<equipment, waitlist, memberships, now,
                               timeslots, uid, txns, gen>>

-----------------------------------------------------------------------------
(* sports.waitlist and sports.membership records *)

\* sports.waitlist create(vals): _check_preferred_date runs
waitlist_create(c, f, preferred_date) ==
    /\ Len(waitlist) < MaxWaitlist
    /\ IF preferred_date # NoDate /\ preferred_date < DateOf(now)
       THEN Raise("waitlist_create", 0, {"preferred_date"})
       ELSE /\ waitlist' = Append(waitlist,
                              [customer_id |-> c,
                               facility_id |-> f,
                               preferred_date |-> preferred_date,
                               status |-> "waiting",
                               notification_sent |-> FALSE,
                               create_date |-> now,
                               write_date |-> now])
            /\ Done("waitlist_create", Len(waitlist) + 1)
            /\ UNCHANGED <<bookings, equipment, memberships, now,
                           timeslots, uid, txns, gen>>

\* The discount create() fills in when vals carry none
discount_map(membership_type) ==
    IF membership_type = "basic" THEN 5
    ELSE IF membership_type = "premium" THEN 15
    ELSE IF membership_type = "vip" THEN 25
    ELSE 0

\* sports.membership create(vals): discount 0 stands for vals without one,
\* type "none" for vals without a type (the field's default is then stored);
\* _check_dates and the discount_valid constraint run
membership_create(c, membership_type, start_date, end_date, discount, status, payment_status) ==
    /\ Len(memberships) < MaxMemberships
    /\ LET discount_percentage ==
               IF discount = 0 THEN discount_map(membership_type)
               ELSE discount
       IN  IF end_date <= start_date
           THEN Raise("membership_create", 0, {"dates"})
           ELSE IF ~(discount_percentage >= 0 /\ discount_percentage <= 100)
           THEN Raise("membership_create", 0, {"discount"})
           ELSE /\ memberships' = Append(memberships,
                                     [member_id |-> c,
                                      membership_type |->
                                          IF membership_type = "none"
                                          THEN "basic"
                                          ELSE membership_type,
                                      start_date |-> start_date,
                                      end_date |-> end_date,
                                      discount_percentage |->
                                          discount_percentage,
                                      status |-> status,
                                      payment_status |-> payment_status])
                /\ Done("membership_create", Len(memberships) + 1)
                /\ UNCHANGED <<bookings, equipment, waitlist, now,
                               timeslots, uid, txns, gen>>

MaxEndDate == 64

\* membership.action_activate()
membership_action_activate(m) ==
    /\ m \in DOMAIN memberships
    /\ IF memberships[m].payment_status # "paid"
       THEN Raise("membership_action_activate", m, {"payment"})
       ELSE /\ memberships' = [memberships EXCEPT ![m].status = "active"]
            /\ Done("membership_action_activate", m)
            /\ UNCHANGED <<bookings, equipment, waitlist, now, timeslots,
                           uid, txns, gen>>

\* membership.action_renew(duration_days); _check_dates holds again since
\* the end date only grows
membership_action_renew(m, duration_days) ==
    /\ m \in DOMAIN memberships
    /\ LET new_end_date == memberships[m].end_date + duration_days
       IN  /\ new_end_date <= MaxEndDate
           /\ IF new_end_date <= memberships[m].start_date
              THEN Raise("membership_action_renew", m, {"dates"})
              ELSE /\ memberships' =
                        [memberships EXCEPT ![m].end_date = new_end_date,
                                            ![m].status = "active",
                                            ![m].payment_status = "pending"]
                   /\ Done("membership_action_renew", m)
                   /\ UNCHANGED <<bookings, equipment, waitlist, now,
                                  timeslots, uid, txns, gen>>

\* membership.action_cancel()
membership_action_cancel(m) ==
    /\ m \in DOMAIN memberships
    /\ memberships' = [memberships EXCEPT ![m].status = "cancelled"]
    /\ Done("membership_action_cancel", m)
    /\ UNCHANGED <<bookings, equipment, waitlist, now, timeslots, uid,
                   txns, gen>>

\* waitlist.action_notify_customer()
action_notify_customer(w) ==
    /\ w \in DOMAIN waitlist
    /\ IF waitlist[w].status # "waiting"
       THEN Raise("action_notify_customer", w, {"status"})
       ELSE /\ waitlist' = [waitlist EXCEPT ![w].status = "notified",
                                            ![w].notification_sent = TRUE,
                                            ![w].write_date = now]
            /\ Done("action_notify_customer", w)
            /\ UNCHANGED <<bookings, equipment, memberships, now,
                           timeslots, uid, txns, gen>>

\* waitlist.action_mark_booked()
action_mark_booked(w) ==
    /\ w \in DOMAIN waitlist
    /\ IF waitlist[w].status \notin {"waiting", "notified"}
       THEN Raise("action_mark_booked", w, {"status"})
       ELSE /\ waitlist' = [waitlist EXCEPT ![w].status = "booked",
                                            ![w].write_date = now]
            /\ Done("action_mark_booked", w)
            /\ UNCHANGED <<bookings, equipment, memberships, now,
                           timeslots, uid, txns, gen>>

\* waitlist.action_mark_expired() on the entries found
action_mark_expired(ws, found, clock) ==
    [i \in DOMAIN ws |->
        IF i \in found
        THEN [ws[i] EXCEPT !.status = "expired", !.write_date = clock]
        ELSE ws[i]]

\* A search that also finds the entries written exactly 48 hours ago
notified_expired_at(ws, clock) ==
    {i \in DOMAIN ws :
        /\ ws[i].status = "notified"
        /\ ws[i].write_date <= clock - 48 * MinutesPerHour}

\* ('status', '=', 'notified'), ('write_date', '<', expiry_time)
notified_expired(ws, clock) ==
    {i \in DOMAIN ws :
        /\ ws[i].status = "notified"
        /\ ws[i].write_date < clock - 48 * MinutesPerHour}

\* A search that finds only the entries whose date was yesterday
past_date_expired_yesterday(ws, clock) ==
    {i \in DOMAIN ws :
        /\ ws[i].status = "waiting"
        /\ ws[i].preferred_date # NoDate
        /\ ws[i].preferred_date = DateOf(clock) - 1}

\* ('status', '=', 'waiting'), ('preferred_date', '!=', False),
\* ('preferred_date', '<', today)
past_date_expired(ws, clock) ==
    {i \in DOMAIN ws :
        /\ ws[i].status = "waiting"
        /\ ws[i].preferred_date # NoDate
        /\ ws[i].preferred_date < DateOf(clock)}

\* The waitlist after one run of _cron_expire_old_waitlist_entries
expire_old_waitlist_entries(ws, clock) ==
    LET marked == action_mark_expired(ws, notified_expired(ws, clock), clock)
    IN  action_mark_expired(marked, past_date_expired(marked, clock), clock)

\* The records a run has written
Written(old, new) == {i \in DOMAIN old : new[i] # old[i]}

\* A run of a scheduled action that wrote n records
Swept(op, n) == last' = Outcome(op, 0, n, TRUE, {}, NoSnapshot)

\* waitlist._cron_expire_old_waitlist_entries()
cron_expire_old_waitlist_entries ==
    /\ waitlist' = expire_old_waitlist_entries(waitlist, now)
    /\ Swept("_cron_expire_old_waitlist_entries",
             Cardinality(Written(waitlist, waitlist')))
    /\ UNCHANGED <<bookings, equipment, memberships, now, timeslots,
                   uid, txns, gen>>

\* A sweep that turns the active flag of every old completed booking over
archive_expired_bookings_turned(bs, clock) ==
    [i \in DOMAIN bs |->
        IF bs[i].status = "completed" /\ bs[i].end_datetime < clock - 30 * Day
        THEN [bs[i] EXCEPT !.active = ~bs[i].active]
        ELSE bs[i]]

\* The bookings after one run of _cron_archive_expired_bookings: completed,
\* ended before now - 30 days and active ones are written active = False
archive_expired_bookings(bs, clock) ==
    [i \in DOMAIN bs |->
        IF /\ bs[i].status = "completed"
           /\ bs[i].end_datetime < clock - 30 * Day
           /\ bs[i].active
        THEN [bs[i] EXCEPT !.active = FALSE]
        ELSE bs[i]]

\* booking._cron_archive_expired_bookings()
cron_archive_expired_bookings ==
    /\ bookings' = archive_expired_bookings(bookings, now)
    /\ Swept("_cron_archive_expired_bookings",
             Cardinality(Written(bookings, bookings')))
    /\ UNCHANGED <<equipment, waitlist, memberships, now, timeslots,
                   uid, txns, gen>>

\* The memberships after one run of _cron_update_expired_memberships
update_expired_memberships(ms, clock) ==
    [i \in DOMAIN ms |->
        IF ms[i].status = "active" /\ ms[i].end_date < DateOf(clock)
        THEN [ms[i] EXCEPT !.status = "expired"]
        ELSE ms[i]]

\* membership._cron_update_expired_memberships()
cron_update_expired_memberships ==
    /\ memberships' = update_expired_memberships(memberships, now)
    /\ Swept("_cron_update_expired_memberships",
             Cardinality(Written(memberships, memberships')))
    /\ UNCHANGED <<bookings, equipment, waitlist, now, timeslots, uid,
                   txns, gen>>

-----------------------------------------------------------------------------
(* sports.timeslot: date is a day, start_time and end_time minutes of the day,
   booking_id 0 when unset *)

\* _convert_to_datetime(date, time_float)
convert_to_datetime(date, time) == date * Day + time

\* The search of _compute_is_available
overlapping_bookings(bs, r) ==
    {i \in DOMAIN bs :
        /\ bs[i].active
        /\ bs[i].facility_id = r.facility_id
        /\ bs[i].status \in {"draft", "confirmed"}
        /\ bs[i].start_datetime < convert_to_datetime(r.date, r.end_time)
        /\ bs[i].end_datetime > convert_to_datetime(r.date, r.start_time)}

\* _compute_is_available for slot r against bookings bs
compute_is_available(bs, r) ==
    IF r.booking_id # 0 THEN FALSE
    ELSE IF r.start_time # 0 /\ r.end_time # 0
    THEN overlapping_bookings(bs, r) = {}
    ELSE TRUE

\* _sql_constraints, _check_no_overlap and _check_within_operating_hours
timeslot_errors(ts, self) ==
    LET r == ts[self]
    IN  (IF /\ r.end_time > r.start_time
            /\ r.start_time >= 0 /\ r.start_time < Day
            /\ r.end_time > 0 /\ r.end_time <= Day
         THEN {} ELSE {"time"})
        \cup (IF \E i \in DOMAIN ts \ {self} :
                    /\ r.start_time # 0
                    /\ ts[i].facility_id = r.facility_id
                    /\ ts[i].date = r.date
                    /\ ts[i].start_time < r.end_time
                    /\ ts[i].end_time > r.start_time
              THEN {"overlap"} ELSE {})
        \cup (IF \/ r.start_time
                       < facility_id(r.facility_id).operating_hours_start
                 \/ r.end_time
                       > facility_id(r.facility_id).operating_hours_end
              THEN {"hours"} ELSE {})

\* sports.timeslot create(vals): is_available is computed and stored
timeslot_create(f, date, start_time, end_time) ==
    /\ Len(timeslots) < MaxTimeslots
    /\ LET id == Len(timeslots) + 1
           vals == [facility_id |-> f, date |-> date,
                    start_time |-> start_time, end_time |-> end_time,
                    booking_id |-> 0, is_available |-> FALSE]
           r == [vals EXCEPT !.is_available = compute_is_available(bookings,
                                                                   vals)]
           ts == Append(timeslots, r)
       IN  IF timeslot_errors(ts, id) # {}
           THEN Raise("timeslot_create", 0, timeslot_errors(ts, id))
           ELSE /\ timeslots' = ts
                /\ Done("timeslot_create", id)
                /\ UNCHANGED <<bookings, equipment, waitlist, memberships,
                               now, uid, txns, gen>>

\* timeslot.book_slot(booking_id): tests the stored flag; writing booking_id
\* recomputes it
book_slot(sl, booking_id) ==
    /\ sl \in DOMAIN timeslots
    /\ booking_id \in DOMAIN bookings
    /\ IF ~timeslots[sl].is_available
       THEN Raise("book_slot", sl, {"available"})
       ELSE /\ timeslots' =
                 [timeslots EXCEPT ![sl].booking_id = booking_id,
                                   ![sl].is_available =
                                       compute_is_available(bookings,
                                           [timeslots[sl] EXCEPT
                                               !.booking_id = booking_id])]
            /\ Done("book_slot", sl)
            /\ UNCHANGED <<bookings, equipment, waitlist, memberships, uid,
                           now, txns, gen>>

\* timeslot.release_slot()
release_slot(sl) ==
    /\ sl \in DOMAIN timeslots
    /\ timeslots' =
          [timeslots EXCEPT ![sl].booking_id = 0,
                            ![sl].is_available =
                                compute_is_available(bookings,
                                    [timeslots[sl] EXCEPT !.booking_id = 0])]
    /\ Done("release_slot", sl)
    /\ UNCHANGED <<bookings, equipment, waitlist, memberships, uid, now,
                   txns, gen>>

\* check_availability of the website: the bookings the query fetches, those
\* of the facility in draft or confirmed that start on the date
existing_bookings(bs, f, date) ==
    {i \in DOMAIN bs :
        /\ bs[i].active
        /\ bs[i].facility_id = f
        /\ bs[i].status \in {"draft", "confirmed"}
        /\ bs[i].start_datetime >= date * Day
        /\ bs[i].start_datetime <= date * Day + Day - 1}

\* The hours h of the one-hour slots h:00 to h+1:00 the query returns
available_slots(bs, f, date) ==
    {h \in (facility_id(f).operating_hours_start \div MinutesPerHour)
             .. (facility_id(f).operating_hours_end \div MinutesPerHour - 1) :
        \A i \in existing_bookings(bs, f, date) :
            ~(/\ bs[i].start_datetime < At(date, h + 1)
              /\ bs[i].end_datetime > At(date, h))}

\* controller check_availability(facility_id, date): reads only
check_availability_query(f, date) ==
    /\ last' = Outcome("check_availability", f,
                       [date |-> date,
                        available_slots |-> available_slots(bookings, f, date)],
                       TRUE, {}, NoSnapshot)
    /\ UNCHANGED <<bookings, equipment, waitlist, memberships, now,
                   timeslots, uid, txns, gen>>

MaxReminders == 2

\* ('start_datetime', '>=', now), ('start_datetime', '<=', tomorrow),
\* ('status', '=', 'confirmed')
upcoming_bookings(bs, clock) ==
    {i \in DOMAIN bs :
        /\ bs[i].active
        /\ bs[i].start_datetime >= clock
        /\ bs[i].start_datetime <= clock + 24 * MinutesPerHour
        /\ bs[i].status = "confirmed"}

\* booking._cron_send_booking_reminders(): template.send_mail for each booking
\* found; a mail that fails is logged and the run goes on. reminders counts
\* the mails sent for a booking, arg holds the bookings found.
cron_send_booking_reminders ==
    LET found == upcoming_bookings(bookings, now)
    IN  /\ \A i \in found : bookings[i].reminders < MaxReminders
        /\ \E sent \in SUBSET found :
             bookings' = [i \in DOMAIN bookings |->
                            IF i \in sent
                            THEN [bookings[i] EXCEPT
                                     !.reminders = bookings[i].reminders + 1]
                            ELSE bookings[i]]
        /\ Swept("_cron_send_booking_reminders", found)
        /\ UNCHANGED <<equipment, waitlist, memberships, now, timeslots,
                       uid, txns, gen>>

-----------------------------------------------------------------------------
(* Inputs explored *)

Slot(start, end) == [start |-> start, end |-> end]

Statuses == {"draft", "confirmed", "completed", "cancelled"}

DailyTwice ==
    [is_recurring |-> TRUE, recurrence_type |-> "daily",
     recurrence_count |-> 2, recurrence_end_date |-> NoDate]

BookingIds == 1..MaxBookings

-----------------------------------------------------------------------------
(* The booking life cycle with equipment stock and the waitlist *)

\* Tomorrow 10-12 (the tests' slot) and the same hours two days later
CreateBooking ==
    \E s \in {Slot(At(1, 10), At(1, 12)), Slot(At(3, 10), At(3, 12))},
       eqs \in {{}, {"racket"}, {"racket", "balls"}},
       rec \in {NoRecurrence, DailyTwice} :
        create("tennis", "alice", s.start, s.end, eqs, "draft", rec, 0)

Confirm == \E b \in BookingIds : action_confirm(b, 0, "sent")

Complete == \E b \in BookingIds : action_complete(b)

Cancel == \E b \in BookingIds : action_cancel(b, "sent", "sent")

ResetToDraft == \E b \in BookingIds : action_reset_to_draft(b)

\* One customer waits for the tennis court
JoinWaitlist == waitlist = <<>> /\ waitlist_create("bob", "tennis", NoDate)

Next ==
    \/ CreateBooking
    \/ Confirm
    \/ Complete
    \/ Cancel
    \/ ResetToDraft
    \/ JoinWaitlist

Spec == Init /\ [][Next]_vars

-----------------------------------------------------------------------------
(* Facility schedule: every operation that stores or moves a booking *)

\* Two slots that intersect from 11:00 to 12:00, both within twelve hours
SlotsBooked == {Slot(At(0, 10), At(0, 12)), Slot(At(0, 11), At(0, 13))}

\* The tennis court in either slot, the basketball court in the first
PlacesBooked ==
    {<<"tennis", s>> : s \in SlotsBooked}
        \cup {<<"basket", Slot(At(0, 10), At(0, 12))>>}

\* Single bookings, as drafts or directly confirmed, and a daily series on
\* the tennis court
CreateOnFacility ==
    \/ \E p \in PlacesBooked, st \in {"draft", "confirmed"} :
          create(p[1], "alice", p[2].start, p[2].end, {}, st, NoRecurrence, 0)
    \/ create("tennis", "alice", At(0, 10), At(0, 12), {}, "draft",
              DailyTwice, 0)

WriteSchedule ==
    \E b \in BookingIds, p \in PlacesBooked :
        write_schedule(b, p[1], p[2].start, p[2].end, 0)

WriteStatus ==
    \E b \in BookingIds, st \in Statuses : write_status(b, st)

GenerateRecurring ==
    \E b \in BookingIds : call_generate_recurring_bookings(b, 0)

NextOverlap ==
    \/ CreateOnFacility
    \/ WriteSchedule
    \/ WriteStatus
    \/ Confirm
    \/ Complete
    \/ Cancel
    \/ ResetToDraft
    \/ GenerateRecurring

SpecOverlap == Init /\ [][NextOverlap]_vars

-----------------------------------------------------------------------------
(* The overlap check: creates and updates against a facility's bookings *)

\* Two slots that touch at 12:00 and one that intersects both
SlotsTried ==
    SlotsBooked \cup {Slot(At(0, 12), At(0, 14))}

CreateInSlot ==
    \E f \in Facilities, s \in SlotsTried, st \in Statuses :
        create(f, "alice", s.start, s.end, {}, st, NoRecurrence, 0)

MoveToSlot ==
    \E b \in BookingIds, f \in Facilities, s \in SlotsTried :
        write_schedule(b, f, s.start, s.end, 0)

NextCheck == CreateInSlot \/ MoveToSlot \/ WriteStatus

SpecCheck == Init /\ [][NextCheck]_vars

-----------------------------------------------------------------------------
(* Equipment stock: the calls on sports.equipment beside the life cycle *)

QuantitiesTried == {-1, 1, 2}

\* Bookings as the tests create them: as drafts or directly confirmed
CreateInStatus ==
    \E s \in {Slot(At(1, 10), At(1, 12)), Slot(At(3, 10), At(3, 12))},
       eqs \in {{"racket"}, {"racket", "balls"}},
       st \in {"draft", "confirmed"} :
        create("tennis", "alice", s.start, s.end, eqs, st, NoRecurrence, 0)

CheckoutEquipment ==
    \E e \in EquipmentIds, q \in QuantitiesTried :
        call_checkout_equipment(e, q)

ReturnEquipment ==
    \E e \in EquipmentIds, q \in QuantitiesTried :
        call_return_equipment(e, q)

WriteQuantity ==
    \E e \in EquipmentIds, q \in -1..3 : write_quantity_available(e, q)

NextStock ==
    \/ CreateInStatus
    \/ Confirm
    \/ Complete
    \/ Cancel
    \/ CheckoutEquipment
    \/ ReturnEquipment
    \/ WriteQuantity

SpecStock == Init /\ [][NextStock]_vars

-----------------------------------------------------------------------------
(* Pricing: bookings of a customer whose memberships come and go *)

\* vals of sports.membership create: a paid active membership of 20 % over
\* days 1..3, one with the discount of its type over the same days, one that
\* starts on day 2, a pending one, an expired one and one of another customer
MembershipsTried ==
    {<<"alice", 20, "active", "paid", 1, 3>>,
     <<"alice", 0, "active", "paid", 1, 3>>,
     <<"alice", 0, "active", "paid", 2, 30>>,
     <<"alice", 20, "active", "pending", 1, 3>>,
     <<"alice", 20, "expired", "paid", 1, 3>>,
     <<"bob", 20, "active", "paid", 1, 3>>}

\* Two hours on day 1, two hours on day 3 and fifty minutes on day 3
SlotsPriced ==
    {Slot(At(1, 10), At(1, 12)), Slot(At(3, 10), At(3, 12)),
     Slot(At(3, 13), At(3, 13) + 50)}

MembershipIds == 1..MaxMemberships

CreateMembership ==
    \E m \in MembershipsTried :
        membership_create(m[1], "premium", m[5], m[6], m[2], m[3], m[4])

CancelMembership == \E m \in MembershipIds : membership_action_cancel(m)

CreatePriced ==
    \E s \in SlotsPriced, eqs \in {{"racket"}, {"racket", "balls"}},
       tie \in MembershipIds :
        create("tennis", "alice", s.start, s.end, eqs, "draft", NoRecurrence,
               tie)

Reschedule ==
    \E b \in BookingIds, s \in SlotsPriced, tie \in MembershipIds :
        write_schedule(b, "tennis", s.start, s.end, tie)

NextCost == CreateMembership \/ CancelMembership \/ CreatePriced \/ Reschedule

SpecCost == Init /\ [][NextCost]_vars

-----------------------------------------------------------------------------
(* Refunds: bookings cancelled as their start comes closer *)

MaxClockHours == 72

\* fields.Datetime.now() moves on, six hours at a time
AdvanceClock ==
    /\ now + 6 * MinutesPerHour <= MaxClockHours * MinutesPerHour
    /\ now' = now + 6 * MinutesPerHour
    /\ Done("clock", 0)
    /\ UNCHANGED <<bookings, equipment, waitlist, memberships, timeslots,
                   uid, txns, gen>>

\* Two hours and fifty minutes from noon of day 2, sixty hours from the start
CreateRefundable ==
    \E end \in {At(2, 14), At(2, 12) + 50}, eqs \in {{}, {"racket"}},
       st \in {"draft", "confirmed"} :
        create("tennis", "alice", At(2, 12), end, eqs, st, NoRecurrence, 0)

NextRefund == CreateRefundable \/ Confirm \/ Cancel \/ AdvanceClock

SpecRefund == Init /\ [][NextRefund]_vars

-----------------------------------------------------------------------------
(* Series: recurring bookings and what stands in their way *)

Recurrence(recurrence_type, recurrence_count) ==
    [is_recurring |-> TRUE, recurrence_type |-> recurrence_type,
     recurrence_count |-> recurrence_count, recurrence_end_date |-> NoDate]

\* A daily series of three as in the tests, a weekly and a monthly one of two
SeriesTried ==
    {Recurrence("daily", 3), Recurrence("weekly", 2),
     Recurrence("monthly", 2)}

\* The parent of a series, 10:00 to 12:00 on day 1 on the tennis court
CreateSeries ==
    \E rec \in SeriesTried, eqs \in {{}, {"racket"}} :
        create("tennis", "alice", At(1, 10), At(1, 12), eqs, "draft", rec, 0)

\* A single booking from 11:00 to 13:00 on day 2 or 3
CreateSingle ==
    \E f \in Facilities, day \in {2, 3}, st \in {"draft", "cancelled"} :
        create(f, "bob", At(day, 11), At(day, 13), {}, st, NoRecurrence, 0)

NextSeries == CreateSeries \/ CreateSingle \/ Confirm \/ GenerateRecurring

SpecSeries == Init /\ [][NextSeries]_vars

-----------------------------------------------------------------------------
(* Waitlist: customers who wait while bookings of day 3 are cancelled *)

\* No preferred date, the last day within two days of day 3 and the first
\* day beyond
DatesPreferred == {NoDate, 5, 6}

JoinForDate ==
    \E f \in Facilities, d \in DatesPreferred : waitlist_create("bob", f, d)

\* Bookings of 10:00 to 12:00 on day 3, as drafts or directly confirmed
CreateOnDayThree ==
    \E f \in Facilities, st \in {"draft", "confirmed"} :
        create(f, "alice", At(3, 10), At(3, 12), {}, st, NoRecurrence, 0)

\* The first twelve hours pass
PassMorning == now < 12 * MinutesPerHour /\ AdvanceClock

NextWaitlist == JoinForDate \/ CreateOnDayThree \/ Cancel \/ PassMorning

SpecWaitlist == Init /\ [][NextWaitlist]_vars

-----------------------------------------------------------------------------
(* Waitlist expiry: entries age over three days *)

MaxClockDays == 33

\* fields.Datetime.now() moves on by n days
PassDays(n) ==
    /\ DateOf(now) + n <= MaxClockDays
    /\ now' = now + n * Day
    /\ Done("clock", 0)
    /\ UNCHANGED <<bookings, equipment, waitlist, memberships, timeslots,
                   uid, txns, gen>>

WaitlistIds == 1..MaxWaitlist

JoinEarly ==
    \E d \in {NoDate, 0, 1, 3} : waitlist_create("bob", "tennis", d)

Notify == \E w \in WaitlistIds : action_notify_customer(w)

MarkBooked == \E w \in WaitlistIds : action_mark_booked(w)

PassDay == DateOf(now) < 3 /\ PassDays(1)

ExpireWaitlist == cron_expire_old_waitlist_entries

NextExpiry == JoinEarly \/ Notify \/ MarkBooked \/ PassDay \/ ExpireWaitlist

SpecExpiry == Init /\ [][NextExpiry]_vars

-----------------------------------------------------------------------------
(* Sweeps: records age over a month *)

\* The records are made on day 0: bookings of 10:00 to 12:00, one membership
\* that ends on day 1 or day 31, one customer who waits
CreateFinished ==
    /\ now = 0
    /\ \E st \in {"confirmed", "completed"} :
         create("tennis", "alice", At(0, 10), At(0, 12), {}, st,
                NoRecurrence, 0)

CreateEnding ==
    /\ now = 0
    /\ memberships = <<>>
    /\ \E end_date \in {1, 31} :
         membership_create("alice", "premium", 0, end_date, 20, "active",
                           "paid")

JoinForTomorrow ==
    /\ now = 0
    /\ waitlist = <<>>
    /\ \E d \in {NoDate, 1} : waitlist_create("bob", "tennis", d)

PassMonth == PassDays(30)

ArchiveBookings == cron_archive_expired_bookings

ExpireMemberships == cron_update_expired_memberships

NextSweeps ==
    \/ CreateFinished \/ Complete \/ ArchiveBookings
    \/ CreateEnding \/ ExpireMemberships
    \/ JoinForTomorrow \/ Notify \/ ExpireWaitlist
    \/ PassDay \/ PassMonth

SpecSweeps == Init /\ [][NextSweeps]_vars

-----------------------------------------------------------------------------
(* Reminders: bookings of day 1 as their start comes closer *)

CreateUpcoming ==
    \E f \in Facilities, st \in {"draft", "confirmed"} :
        create(f, "alice", At(1, 10), At(1, 12), {}, st, NoRecurrence, 0)

SendReminders == cron_send_booking_reminders

NextReminders ==
    CreateUpcoming \/ Confirm \/ Cancel \/ AdvanceClock \/ SendReminders

SpecReminders == Init /\ [][NextReminders]_vars

-----------------------------------------------------------------------------
(* Mails: bookings confirmed and cancelled while mails fail *)

CreateEquipped ==
    \E f \in Facilities, eqs \in {{"racket"}, {"racket", "balls"}} :
        create(f, "alice", At(3, 10), At(3, 12), eqs, "draft", NoRecurrence, 0)

ConfirmMailed ==
    \E b \in BookingIds, mail \in MailOutcomes : action_confirm(b, 0, mail)

CancelMailed ==
    \E b \in BookingIds, mail \in MailOutcomes, notification \in MailOutcomes :
        action_cancel(b, mail, notification)

NextMail == CreateEquipped \/ ConfirmMailed \/ CancelMailed \/ JoinWaitlist

SpecMail == Init /\ [][NextMail]_vars

-----------------------------------------------------------------------------
(* Dates and hours: periods that end early, leave the opening hours or span
   the night *)

\* Within the hours 8:00 to 20:00, ending before or at the start, starting
\* before the opening, ending after the closing, and over a night from within
\* the hours, from after the closing and to before the opening
PeriodsTried ==
    {Slot(At(0, 10), At(0, 12)), Slot(At(0, 8), At(0, 20)),
     Slot(At(0, 12), At(0, 10)), Slot(At(0, 10), At(0, 10)),
     Slot(At(0, 7) + 59, At(0, 9)), Slot(At(0, 19), At(0, 20) + 1),
     Slot(At(0, 18), At(1, 9)), Slot(At(0, 21), At(1, 9)),
     Slot(At(0, 18), At(1, 7))}

CreateInPeriod ==
    \E f \in Facilities, s \in PeriodsTried :
        create(f, "alice", s.start, s.end, {}, "draft", NoRecurrence, 0)

MoveToPeriod ==
    \E b \in BookingIds, s \in PeriodsTried :
        write_schedule(b, bookings[b].facility_id, s.start, s.end, 0)

\* The website asks for the free slots of day 0 or day 1
QueryAvailability ==
    \E f \in Facilities, date \in {0, 1} : check_availability_query(f, date)

NextPeriods == CreateInPeriod \/ MoveToPeriod \/ Confirm \/ QueryAvailability

SpecPeriods == Init /\ [][NextPeriods]_vars

-----------------------------------------------------------------------------
(* Visit: the customer of a confirmed booking arrives *)

\* The stored fields of sports.booking a write may name
BookingFields ==
    {"facility_id", "customer_id", "start_datetime", "end_datetime",
     "status", "equipment_ids", "notes", "active", "is_recurring",
     "recurrence_type", "recurrence_count", "recurrence_end_date",
     "parent_booking_id"}

\* The fields of vals that record r does not have are added, the others
\* replaced
Write(r, vals) ==
    [k \in DOMAIN r \cup DOMAIN vals |->
        IF k \in DOMAIN vals THEN vals[k] ELSE r[k]]

\* booking.write({'status': 'in_progress', 'checkin_datetime': now}): a name
\* that is no field of the model, or a value that is none of the selection,
\* is a ValueError
write_checkin(b) ==
    /\ b \in DOMAIN bookings
    /\ LET vals == [status |-> "in_progress", checkin_datetime |-> now]
           bs == [bookings EXCEPT ![b] = Write(bookings[b], vals)]
       IN  IF ~(DOMAIN vals \subseteq BookingFields)
              \/ vals.status \notin Statuses
           THEN Raise("write_checkin", b, {"value"})
           ELSE IF ~check_facility_availability(bs, b)
           THEN Raise("write_checkin", b, {"overlap"})
           ELSE /\ bookings' = bs
                /\ Done("write_checkin", b)
                /\ UNCHANGED <<equipment, waitlist, memberships, now,
                               timeslots, uid, txns, gen>>

CheckIn == \E b \in BookingIds : write_checkin(b)

NextVisit == CreateEquipped \/ Confirm \/ CheckIn \/ Complete \/ Cancel

SpecVisit == Init /\ [][NextVisit]_vars

-----------------------------------------------------------------------------
(* Memberships: paid, renewed, cancelled and expired *)

\* A paid membership from day 0 to day 1 or day 31, active or cancelled
CreatePaid ==
    \E end_date \in {1, 31}, status \in {"active", "cancelled"} :
        membership_create("alice", "premium", 0, end_date, 0, status, "paid")

ActivateMembership ==
    \E m \in MembershipIds : membership_action_activate(m)

RenewMembership ==
    \E m \in MembershipIds : membership_action_renew(m, 30)

NextMembership ==
    \/ CreatePaid \/ ActivateMembership \/ RenewMembership
    \/ CancelMembership \/ ExpireMemberships \/ PassDay

SpecMembership == Init /\ [][NextMembership]_vars

-----------------------------------------------------------------------------
(* Time slots of the tennis court on day 1 and the bookings of that day *)

TimeslotIds == 1..MaxTimeslots

\* 10:00 to 12:00, 12:00 to 13:00, and 7:00 to 9:00 before the opening
CreateSlot ==
    \E s \in {Slot(10, 12), Slot(12, 13), Slot(7, 9)} :
        timeslot_create("tennis", 1, s.start * MinutesPerHour,
                        s.end * MinutesPerHour)

CreateOnDayOne ==
    \E s \in {Slot(At(1, 10), At(1, 12)), Slot(At(1, 11), At(1, 13))} :
        create("tennis", "alice", s.start, s.end, {}, "draft", NoRecurrence, 0)

BookSlot ==
    \E sl \in TimeslotIds, b \in BookingIds : book_slot(sl, b)

ReleaseSlot == \E sl \in TimeslotIds : release_slot(sl)

NextSlots ==
    CreateSlot \/ CreateOnDayOne \/ Cancel \/ BookSlot \/ ReleaseSlot

SpecSlots == Init /\ [][NextSlots]_vars

-----------------------------------------------------------------------------
(* Access to bookings *)

\* The users of the security tests: two Sports Users, whose partners are the
\* two customers, and a Sports Manager
Users == {"sportsuser", "sportsuser2", "sportsmanager"}

partner_id(u) ==
    CASE u = "sportsuser" -> "alice"
      [] u = "sportsuser2" -> "bob"
      [] OTHER -> u

groups_id(u) ==
    CASE u \in {"sportsuser", "sportsuser2"} -> {"group_sports_user"}
      [] u = "sportsmanager" -> {"group_sports_manager"}
      [] OTHER -> {}

\* The access rights of sports.booking: a Sports User reads, writes and
\* creates, a Sports Manager also deletes; the superuser passes every check
check_access_rights(u, operation) ==
    \/ u = "superuser"
    \/ "group_sports_manager" \in groups_id(u)
    \/ /\ "group_sports_user" \in groups_id(u)
       /\ operation \in {"read", "write", "create"}

\* The record rules of sports.booking: for a Sports User the bookings whose
\* customer is the user's partner, for a Sports Manager all of them
check_access_rule(u, r) ==
    \/ u = "superuser"
    \/ "group_sports_manager" \in groups_id(u)
    \/ /\ "group_sports_user" \in groups_id(u)
       /\ r.customer_id = partner_id(u)

\* env(user=u): the calls that follow run as user u
with_user(u) ==
    /\ uid' = u
    /\ last' = Outcome("with_user", u, 0, TRUE, {}, NoSnapshot)
    /\ UNCHANGED <<bookings, equipment, waitlist, memberships, timeslots,
                   now, txns, gen>>

\* Booking.with_user(uid).create(vals): the access right, then the record
\* rule on the new record
user_create(f, c, start, end) ==
    LET r == NewBooking(f, c, start, end, {}, "draft", NoRecurrence, <<>>, 0,
                        0)
    IN  IF ~check_access_rights(uid, "create") \/ ~check_access_rule(uid, r)
        THEN /\ Len(bookings) < MaxBookings
             /\ RaiseIn("create", 0, [customer_id |-> c], {"access"})
        ELSE create(f, c, start, end, {}, "draft", NoRecurrence, 0)

\* Booking.with_user(uid).search([]): the record rule is part of the domain
\* and archived records are left out
user_search ==
    IF ~check_access_rights(uid, "read")
    THEN Raise("search", 0, {"access"})
    ELSE /\ last' = Outcome("search", 0,
                            {i \in DOMAIN bookings :
                                /\ bookings[i].active
                                /\ check_access_rule(uid, bookings[i])},
                            TRUE, {}, NoSnapshot)
         /\ UNCHANGED <<bookings, equipment, waitlist, memberships,
                        timeslots, uid, now, txns, gen>>

\* Booking.with_user(uid).browse(b).read(['notes'])
user_read(b) ==
    /\ b \in DOMAIN bookings
    /\ IF ~check_access_rights(uid, "read")
          \/ ~check_access_rule(uid, bookings[b])
       THEN Raise("read", b, {"access"})
       ELSE /\ Done("read", b)
            /\ UNCHANGED <<bookings, equipment, waitlist, memberships,
                           timeslots, uid, now, txns, gen>>

UserNote == <<[kind |-> "text"]>>

\* Booking.with_user(uid).browse(b).write({'notes': ...}): no constraint
\* reads the notes
user_write_notes(b) ==
    /\ b \in DOMAIN bookings
    /\ IF ~check_access_rights(uid, "write")
          \/ ~check_access_rule(uid, bookings[b])
       THEN Raise("write_notes", b, {"access"})
       ELSE /\ bookings' = [bookings EXCEPT ![b].notes = UserNote]
            /\ Done("write_notes", b)
            /\ UNCHANGED <<equipment, waitlist, memberships, timeslots, uid,
                           now, txns, gen>>

\* The records of s without the one at position b: the records after it
\* move up
Remove(s, b) == SubSeq(s, 1, b - 1) \o SubSeq(s, b + 1, Len(s))

\* Booking.with_user(uid).browse(b).unlink()
user_unlink(b) ==
    /\ b \in DOMAIN bookings
    /\ IF ~check_access_rights(uid, "unlink")
          \/ ~check_access_rule(uid, bookings[b])
       THEN Raise("unlink", b, {"access"})
       ELSE /\ bookings' = Remove(bookings, b)
            /\ Done("unlink", b)
            /\ UNCHANGED <<equipment, waitlist, memberships, timeslots, uid,
                           now, txns, gen>>

\* The search of /my/bookings without its customer condition
my_bookings_search_any_customer(bs, partner) ==
    {i \in DOMAIN bs : bs[i].active}

\* sudo().search([('customer_id', '=', request.env.user.partner_id.id)])
my_bookings_search(bs, partner) ==
    {i \in DOMAIN bs : bs[i].active /\ bs[i].customer_id = partner}

\* /my/bookings, auth='user'
my_bookings ==
    /\ uid \in Users
    /\ last' = Outcome("my_bookings", 0,
                       my_bookings_search(bookings, partner_id(uid)), TRUE,
                       {}, NoSnapshot)
    /\ UNCHANGED <<bookings, equipment, waitlist, memberships, timeslots,
                   uid, now, txns, gen>>

\* sudo().search([('id', '=', booking_id), ('customer_id', '=',
\* request.env.user.partner_id.id)], limit=1)
booking_confirmation_search(bs, booking_id, partner) ==
    {i \in DOMAIN bs :
        bs[i].active /\ i = booking_id /\ bs[i].customer_id = partner}

\* /booking/confirmation/<int:booking_id>, auth='user': the page of the
\* booking, or not found
booking_confirmation(booking_id) ==
    /\ uid \in Users
    /\ IF booking_confirmation_search(bookings, booking_id,
                                      partner_id(uid)) = {}
       THEN Raise("booking_confirmation", booking_id, {"not_found"})
       ELSE /\ Done("booking_confirmation", booking_id)
            /\ UNCHANGED <<bookings, equipment, waitlist, memberships,
                           timeslots, uid, now, txns, gen>>

-----------------------------------------------------------------------------
(* Users and a manager on the bookings of the two customers *)

WithUser == \E u \in Users : with_user(u)

UserCreate ==
    \E c \in Customers, s \in {Slot(At(1, 10), At(1, 12)),
                               Slot(At(1, 12), At(1, 14))} :
        user_create("tennis", c, s.start, s.end)

UserSearch == user_search

UserRead == \E b \in BookingIds : user_read(b)

UserWriteNotes == \E b \in BookingIds : user_write_notes(b)

UserUnlink == \E b \in BookingIds : user_unlink(b)

MyBookings == my_bookings

BookingConfirmation == \E b \in BookingIds : booking_confirmation(b)

NextAccess ==
    \/ WithUser \/ UserCreate \/ UserSearch \/ UserRead \/ UserWriteNotes
    \/ UserUnlink \/ MyBookings \/ BookingConfirmation

SpecAccess == Init /\ [][NextAccess]_vars

-----------------------------------------------------------------------------
(* Transactions side by side *)

\* create(vals) in transaction t: the row is inserted and the constraints
\* search the bookings the transaction sees, those committed by now; no row
\* is locked. A constraint error rolls the transaction back
txn_create(t, f, c, start, end) ==
    /\ txns[t].pc = "idle"
    /\ Len(bookings) < MaxBookings
    /\ LET r == NewBooking(f, c, start, end, {}, "draft", NoRecurrence, <<>>,
                           0, 0)
           bs == Append(bookings, r)
           errs == ConstraintErrors(bs, Len(bs))
       IN  IF errs # {}
           THEN RaiseIn("txn_create", t, Vals(r), errs)
           ELSE /\ txns' = [txns EXCEPT ![t] = [pc |-> "created", vals |-> r,
                                                seen |-> Len(bookings)]]
                /\ last' = Outcome("txn_create", t, Vals(r), TRUE, {},
                                   NoSnapshot)
                /\ UNCHANGED <<bookings, equipment, waitlist, memberships,
                               timeslots, uid, now, gen>>

\* The end of the request commits the transaction: its row becomes visible
\* to the others. The insert of another row is no conflict
txn_commit(t) ==
    /\ txns[t].pc = "created"
    /\ Len(bookings) < MaxBookings
    /\ bookings' = Append(bookings, txns[t].vals)
    /\ txns' = [txns EXCEPT ![t] = NoTxn]
    /\ last' = Outcome("txn_commit", t, Vals(txns[t].vals), TRUE, {},
                       NoSnapshot)
    /\ UNCHANGED <<equipment, waitlist, memberships, timeslots, uid, now, gen>>

SlotsRaced ==
    {Slot(At(1, 10), At(1, 12)), Slot(At(1, 11), At(1, 13)),
     Slot(At(1, 12), At(1, 14))}

TxnCreate ==
    \E t \in TxnIds, f \in Facilities, s \in SlotsRaced :
        txn_create(t, f, "alice", s.start, s.end)

TxnCommit == \E t \in TxnIds : txn_commit(t)

\* A request alone: create and commit with nothing in between
CreateAlone ==
    \E f \in Facilities, s \in SlotsRaced :
        /\ \A t \in TxnIds : txns[t].pc = "idle"
        /\ create(f, "bob", s.start, s.end, {}, "draft", NoRecurrence, 0)

NextRace == TxnCreate \/ TxnCommit \/ CreateAlone

SpecRace == Init /\ [][NextRace]_vars

-----------------------------------------------------------------------------
(* Confirmations side by side *)

\* An update that never meets a concurrent one
concurrent_update_unseen(old, new, rows) == FALSE

\* self.quantity_available -= quantity and record.write({'status': ...})
\* are updates of rows: the update of a row that another transaction has
\* changed and committed since this transaction read it is refused by the
\* database (the transactions of the framework are repeatable reads)
concurrent_update(old, new, rows) == \E x \in rows : new[x] # old[x]

\* action_confirm() on a booking without recurrence in transaction t: the
\* checks and the checkout read the rows committed by now; the writes stay
\* in the transaction until it ends
txn_action_confirm(t, b) ==
    /\ txns[t].pc = "idle"
    /\ b \in DOMAIN bookings
    /\ ~bookings[b].is_recurring
    /\ LET record == bookings[b]
           checkout == checkout_loop(equipment, record.equipment_ids)
       IN  IF ~confirm_allowed(record.status)
           THEN RaiseIn("txn_action_confirm", b, t, {"status"})
           ELSE IF overlapping(bookings, b, record.facility_id,
                               record.start_datetime,
                               record.end_datetime) # {}
           THEN RaiseIn("txn_action_confirm", b, t, {"overlap"})
           ELSE IF checkout.errors # {}
           THEN RaiseIn("txn_action_confirm", b, t, {"equipment"})
           ELSE /\ txns' = [txns EXCEPT ![t] =
                               [pc |-> "confirming",
                                vals |-> [booking |-> b,
                                          bookings |-> bookings,
                                          equipment |-> equipment],
                                seen |-> Len(bookings)]]
                /\ last' = Outcome("txn_action_confirm", b, t, TRUE, {},
                                   Stock(equipment))
                /\ UNCHANGED <<bookings, equipment, waitlist, memberships,
                               timeslots, uid, now, gen>>

\* The end of transaction t: its updates are refused and rolled back when
\* one of its rows was changed meanwhile, and committed otherwise
txn_end_confirm(t) ==
    /\ txns[t].pc = "confirming"
    /\ LET b == txns[t].vals.booking
           record == txns[t].vals.bookings[b]
           read == txns[t].vals.equipment
       IN  /\ txns' = [txns EXCEPT ![t] = NoTxn]
           /\ IF \/ concurrent_update(read, equipment, record.equipment_ids)
                 \/ concurrent_update(txns[t].vals.bookings, bookings, {b})
              THEN /\ last' = Outcome("txn_end_confirm", b, t, FALSE,
                                      {"concurrent_update"}, NoSnapshot)
                   /\ UNCHANGED <<bookings, equipment>>
              ELSE /\ bookings' = [bookings EXCEPT ![b].status = "confirmed"]
                   /\ equipment' =
                         [e \in EquipmentIds |->
                             IF e \in record.equipment_ids
                             THEN checkout_loop(read, record.equipment_ids)
                                     .equipment[e]
                             ELSE equipment[e]]
                   /\ last' = Outcome("txn_end_confirm", b, t, TRUE, {},
                                      Stock(equipment))
    /\ UNCHANGED <<waitlist, memberships, timeslots, uid, now, gen>>

\* Bookings of the two facilities for the same hours, each with the balls,
\* of which there is one set
CreateWithBalls ==
    \E f \in Facilities, eqs \in {{"balls"}, {"racket", "balls"}} :
        create(f, "alice", At(1, 10), At(1, 12), eqs, "draft", NoRecurrence,
               0)

TxnConfirm == \E t \in TxnIds, b \in BookingIds : txn_action_confirm(t, b)

TxnEndConfirm == \E t \in TxnIds : txn_end_confirm(t)

CancelAlone ==
    /\ \A t \in TxnIds : txns[t].pc = "idle"
    /\ Cancel

NextStockRace == CreateWithBalls \/ TxnConfirm \/ TxnEndConfirm \/ CancelAlone

SpecStockRace == Init /\ [][NextStockRace]_vars

-----------------------------------------------------------------------------
(* Bookings of day 0 in every status, the four actions and the archival *)

CreateInAnyStatus ==
    /\ now = 0
    /\ \E f \in Facilities, eqs \in {{}, {"racket"}},
          st \in {"draft", "confirmed", "completed"} :
         create(f, "alice", At(0, 10), At(0, 12), eqs, st, NoRecurrence, 0)

\* One day passes, then a month
PassFirstDay == now = 0 /\ PassDay

NextAbsorbing ==
    \/ CreateInAnyStatus \/ Confirm \/ Complete \/ Cancel \/ ResetToDraft
    \/ PassFirstDay \/ PassMonth \/ ArchiveBookings

SpecAbsorbing == Init /\ [][NextAbsorbing]_vars

-----------------------------------------------------------------------------
(* Series with an end date *)

Until(recurrence_type, recurrence_count, recurrence_end_date) ==
    [is_recurring |-> TRUE, recurrence_type |-> recurrence_type,
     recurrence_count |-> recurrence_count,
     recurrence_end_date |-> recurrence_end_date]

\* Daily series from day 1: until day 3 with the count cleared, with the
\* default count 1, with count 2 and with count 3 until day 2; a weekly
\* series until day 8
SeriesUntil ==
    {Until("daily", 0, 3), Until("daily", 1, 3), Until("daily", 2, 3),
     Until("daily", 3, 2), Until("weekly", 0, 8)}

CreateSeriesUntil ==
    \E rec \in SeriesUntil :
        create("tennis", "alice", At(1, 10), At(1, 12), {}, "draft", rec, 0)

NextUntil == CreateSeriesUntil \/ CreateSingle \/ Confirm \/ GenerateRecurring

SpecUntil == Init /\ [][NextUntil]_vars

-----------------------------------------------------------------------------
(* The loop of generate_recurring_bookings, one iteration at a time *)

\* A count that stops the loop only when it is met exactly
stop_on_count_exactly(recurrence_count, occurrence_count) ==
    recurrence_count # 0 /\ occurrence_count = recurrence_count

\* if self.recurrence_count and occurrence_count >= self.recurrence_count
stop_on_count(recurrence_count, occurrence_count) ==
    recurrence_count # 0 /\ occurrence_count >= recurrence_count

\* if self.recurrence_end_date: if current_start.date() > it
stop_on_end_date(recurrence_end_date, current_start) ==
    recurrence_end_date # NoDate /\ DateOf(current_start) > recurrence_end_date

\* The validation of generate_recurring_bookings, then the state before
\* the first iteration
generate_begin(b) ==
    /\ gen.pc = "idle"
    /\ b \in DOMAIN bookings
    /\ LET p == bookings[b]
       IN  IF \/ ~p.is_recurring
              \/ p.recurrence_type = "none"
              \/ p.recurrence_count = 0 /\ p.recurrence_end_date = NoDate
           THEN Raise("generate_begin", b, {"recurrence"})
           ELSE /\ gen' = [pc |-> "loop", self |-> b,
                           current_start |-> p.start_datetime,
                           current_end |-> p.end_datetime,
                           occurrence_count |-> 0, created |-> 0,
                           failed |-> 0]
                /\ Done("generate_begin", b)
                /\ UNCHANGED <<bookings, equipment, waitlist, memberships,
                               timeslots, uid, txns, now>>

\* One iteration of while True: the next occurrence, the stop conditions,
\* then the occurrence is skipped or created
generate_iterate ==
    /\ gen.pc = "loop"
    /\ gen.occurrence_count < MaxIterations
    /\ LET p == bookings[gen.self]
           cs == next_occurrence(p.recurrence_type, gen.current_start)
           ce == next_occurrence(p.recurrence_type, gen.current_end)
           occ == gen.occurrence_count + 1
           moved == [gen EXCEPT !.current_start = cs, !.current_end = ce,
                                !.occurrence_count = occ]
           child == NewBooking(p.facility_id, p.customer_id, cs, ce,
                               p.equipment_ids, "draft", NoRecurrence,
                               <<[kind |-> "occurrence", occurrence |-> occ,
                                  parent |-> gen.self]>>,
                               gen.self,
                               pick_membership(memberships, p.customer_id,
                                               cs, 0))
           with_child == Append(bookings, child)
       IN  /\ IF \/ stop_on_count(p.recurrence_count, occ)
                 \/ stop_on_end_date(p.recurrence_end_date, cs)
              THEN /\ gen' = [moved EXCEPT !.pc = "done"]
                   /\ UNCHANGED bookings
              ELSE IF \/ overlapping(bookings, 0, p.facility_id, cs, ce) # {}
                      \/ ConstraintErrors(with_child, Len(with_child)) # {}
              THEN /\ gen' = [moved EXCEPT !.failed = @ + 1]
                   /\ UNCHANGED bookings
              ELSE /\ gen' = [moved EXCEPT !.created = @ + 1]
                   /\ bookings' = with_child
           /\ last' = Outcome("generate_iterate", gen.self, occ, TRUE, {},
                              NoSnapshot)
    /\ UNCHANGED <<equipment, waitlist, memberships, timeslots, uid, txns,
                   now>>

\* After the loop: UserError when nothing was created and something
\* failed, a note on the parent when something failed
generate_end ==
    /\ gen.pc = "done"
    /\ gen' = NoGen
    /\ IF gen.created = 0 /\ gen.failed > 0
       THEN /\ last' = Outcome("generate_end", gen.self, 0, FALSE,
                               {"recurrence"}, NoSnapshot)
            /\ UNCHANGED bookings
       ELSE /\ last' = Outcome("generate_end", gen.self, gen.created, TRUE,
                               {}, NoSnapshot)
            /\ bookings' =
                  IF gen.failed > 0
                  THEN [bookings EXCEPT ![gen.self].notes =
                          Append(@, [kind |-> "recurrence",
                                     created |-> gen.created,
                                     failed |-> gen.failed])]
                  ELSE bookings
    /\ UNCHANGED <<equipment, waitlist, memberships, timeslots, uid, txns,
                   now>>

\* Daily series of day 1: counts -1, 2 and 3, the count cleared until day 3,
\* count -1 until day 3, and one with neither count nor end date
SeriesLooped ==
    {Until("daily", -1, NoDate), Until("daily", 2, NoDate),
     Until("daily", 3, NoDate), Until("daily", 0, 3), Until("daily", -1, 3),
     Until("daily", 0, NoDate)}

CreateSeriesLooped ==
    /\ gen.pc = "idle"
    /\ \E rec \in SeriesLooped :
         create("tennis", "alice", At(1, 10), At(1, 12), {}, "draft", rec, 0)

\* A booking in the way of the occurrence of day 2
CreateInTheWay ==
    /\ gen.pc = "idle"
    /\ create("tennis", "bob", At(2, 11), At(2, 13), {}, "draft",
              NoRecurrence, 0)

GenerateBegin == \E b \in BookingIds : generate_begin(b)

GenerateIterate == generate_iterate

GenerateEnd == generate_end

NextLoop ==
    \/ CreateSeriesLooped \/ CreateInTheWay
    \/ GenerateBegin \/ GenerateIterate \/ GenerateEnd

\* The call runs on once it has begun
SpecLoop ==
    /\ Init
    /\ [][NextLoop]_vars
    /\ WF_vars(GenerateIterate)
    /\ WF_vars(GenerateEnd)

(* Waitlist transitions *)

\* waitlist.action_mark_expired() called on entry w by hand; last.arg is the
\* status the entry had
action_mark_expired_by_hand(w) ==
    /\ w \in DOMAIN waitlist
    /\ waitlist' = action_mark_expired(waitlist, {w}, now)
    /\ last' = Outcome("action_mark_expired", w, waitlist[w].status,
                       TRUE, {}, NoSnapshot)
    /\ UNCHANGED <<bookings, equipment, memberships, now, timeslots,
                   uid, txns, gen>>

\* Entries join on day 0
JoinTennis ==
    /\ now = 0
    /\ \E d \in {NoDate, 1} : waitlist_create("bob", "tennis", d)

\* A confirmed booking of the tennis court, 10:00 to 12:00 on day 3
CreateTennis ==
    /\ now = 0
    /\ create("tennis", "alice", At(3, 10), At(3, 12), {}, "confirmed",
              NoRecurrence, 0)

MarkExpired == \E w \in WaitlistIds : action_mark_expired_by_hand(w)

NextTransitions ==
    \/ JoinTennis
    \/ CreateTennis
    \/ Cancel
    \/ Notify
    \/ MarkBooked
    \/ MarkExpired
    \/ PassDay
    \/ ExpireWaitlist

SpecTransitions == Init /\ [][NextTransitions]_vars

(* Expiry under fairness *)

MaxSweepDays == 5

\* The clock runs to the end of day MaxSweepDays
PassSweepDay == DateOf(now) < MaxSweepDays /\ PassDays(1)

\* Entries are notified while 48 hours and a day of the clock remain
EarlyEnough == DateOf(now) + 3 <= MaxSweepDays

NotifyEarly == EarlyEnough /\ Notify

CancelEarly == EarlyEnough /\ Cancel

NextSweep ==
    \/ JoinTennis
    \/ CreateTennis
    \/ NotifyEarly
    \/ CancelEarly
    \/ MarkBooked
    \/ PassSweepDay
    \/ ExpireWaitlist

\* The scheduler runs the sweep again and again, and time passes
SpecSweep ==
    /\ Init
    /\ [][NextSweep]_vars
    /\ WF_vars(ExpireWaitlist)
    /\ WF_vars(PassSweepDay)

(* Cancelling a cancelled booking again *)

CancelAgain ==
    \E b \in BookingIds :
        action_cancel_within(b, "sent", "sent", MaxRecancels)

NextRecancel == JoinForDate \/ CreateOnDayThree \/ CancelAgain

SpecRecancel == Init /\ [][NextRecancel]_vars

(* Bookings created as confirmed *)

NextDirect ==
    \/ CreateInStatus
    \/ Confirm
    \/ Complete
    \/ Cancel
    \/ ResetToDraft

SpecDirect == Init /\ [][NextDirect]_vars

-----------------------------------------------------------------------------
(* Double booking *)

Intersect(start1, end1, start2, end2) == start1 < end2 /\ end1 > start2

\* C1: no two distinct draft or confirmed bookings of the same facility have
\* intersecting half-open intervals.
C1_NoDoubleBooking ==
    \A a, b \in DOMAIN bookings :
        /\ a # b
        /\ bookings[a].facility_id = bookings[b].facility_id
        /\ bookings[a].status \in {"draft", "confirmed"}
        /\ bookings[b].status \in {"draft", "confirmed"}
        => ~Intersect(bookings[a].start_datetime, bookings[a].end_datetime,
                      bookings[b].start_datetime, bookings[b].end_datetime)

\* action_reset_to_draft was refused on a cancelled booking whose slot a
\* confirmed booking of the same facility has taken since
C1_ResetRefusedOnTakenSlot ==
    /\ last.op = "action_reset_to_draft"
    /\ ~last.ok
    /\ last.errs = {"overlap"}
    /\ bookings[last.id].status = "cancelled"
    /\ \E e \in DOMAIN bookings :
         /\ e # last.id
         /\ bookings[e].status = "confirmed"
         /\ bookings[e].facility_id = bookings[last.id].facility_id
         /\ Intersect(bookings[e].start_datetime, bookings[e].end_datetime,
                      bookings[last.id].start_datetime,
                      bookings[last.id].end_datetime)

\* The existing bookings that stand in the way of values n for record id
\* (id = 0: a record being created)
Blocking(id, n) ==
    {e \in DOMAIN bookings \ {id} :
        /\ bookings[e].facility_id = n.facility_id
        /\ bookings[e].status \in {"draft", "confirmed"}
        /\ bookings[e].start_datetime < n.end_datetime
        /\ bookings[e].end_datetime > n.start_datetime}

\* C2: a create or an update of a booking is rejected by the overlap check
\* exactly when another draft or confirmed booking of the same facility
\* intersects it (so never for a cancelled or completed booking, one of
\* another facility or one that only touches it), and a rejected create
\* stores no booking.
C2_RejectedIffBlocked ==
    [][last'.op \in {"create", "write"} =>
        /\ "overlap" \in last'.errs
              <=> Blocking(IF last'.op = "create" THEN 0 ELSE last'.id,
                           last'.arg) # {}
        /\ last'.op = "create" /\ ~last'.ok => bookings' = bookings]_vars

\* A booking from 12:00 was created although the facility has a confirmed
\* booking that ends at 12:00
C2_TouchingAccepted ==
    /\ last.op = "create"
    /\ last.ok
    /\ last.id = 2
    /\ bookings[1].status = "confirmed"
    /\ bookings[1].facility_id = bookings[2].facility_id
    /\ bookings[1].end_datetime = bookings[2].start_datetime

\* A create was refused for the overlap alone, and the bookings are as before
C2_OverlappingRefused ==
    /\ last.op = "create"
    /\ ~last.ok
    /\ last.errs = {"overlap"}
    /\ Len(bookings) = 1
    /\ bookings[1].status = "draft"

-----------------------------------------------------------------------------
(* Status transitions *)

StatusActions ==
    {"action_confirm", "action_complete", "action_cancel",
     "action_reset_to_draft"}

\* The status changes a step makes to the bookings that existed before it
StatusChanges ==
    {<<bookings[b].status, bookings'[b].status>> :
        b \in {i \in DOMAIN bookings :
                  bookings'[i].status # bookings[i].status}}

\* C3 as stated: the four status actions change a status only along
\* draft->confirmed, confirmed->completed, draft->cancelled and
\* confirmed->cancelled.
C3_OnlyWorkflowTransitions ==
    [][last'.op \in StatusActions =>
        StatusChanges \subseteq
            {<<"draft", "confirmed">>, <<"confirmed", "completed">>,
             <<"draft", "cancelled">>, <<"confirmed", "cancelled">>}]_vars

\* C3 amended: each status action changes a status only along its own
\* transitions, which for action_reset_to_draft are confirmed->draft and
\* cancelled->draft.
C3_TransitionsWithReset ==
    [][/\ last'.op = "action_confirm" =>
            StatusChanges \subseteq {<<"draft", "confirmed">>}
       /\ last'.op = "action_complete" =>
            StatusChanges \subseteq {<<"confirmed", "completed">>}
       /\ last'.op = "action_cancel" =>
            StatusChanges \subseteq
                {<<"draft", "cancelled">>, <<"confirmed", "cancelled">>}
       /\ last'.op = "action_reset_to_draft" =>
            StatusChanges \subseteq
                {<<"confirmed", "draft">>, <<"cancelled", "draft">>}]_vars

\* A booking that was cancelled (it carries the cancellation note) is a draft
\* again after action_reset_to_draft
C3_ResetFromCancelled ==
    /\ last.op = "action_reset_to_draft"
    /\ last.ok
    /\ bookings[last.id].status = "draft"
    /\ \E n \in DOMAIN bookings[last.id].notes :
         bookings[last.id].notes[n].kind = "cancellation"

-----------------------------------------------------------------------------
(* Refused status actions *)

\* Booking b is the target of the call the step makes, and op is the call
Calls(op, b) == last'.op = op /\ last'.id = b

\* C4: a status action its guard forbids (action_confirm off draft,
\* action_complete off confirmed, action_cancel on completed) raises the
\* validation error and changes no booking, no stock level and no waitlist
\* entry.
C4_RefusedActionChangesNothing ==
    [][\A b \in DOMAIN bookings :
         (\/ Calls("action_confirm", b) /\ bookings[b].status # "draft"
          \/ Calls("action_complete", b) /\ bookings[b].status # "confirmed"
          \/ Calls("action_cancel", b) /\ bookings[b].status = "completed")
         => /\ ~last'.ok
            /\ last'.errs = {"status"}
            /\ bookings' = bookings
            /\ equipment' = equipment
            /\ waitlist' = waitlist]_vars

\* action_cancel was refused on a completed booking with equipment while a
\* customer was waiting for the facility
C4_CancelRefusedOnCompleted ==
    /\ last.op = "action_cancel"
    /\ ~last.ok
    /\ bookings[last.id].status = "completed"
    /\ bookings[last.id].equipment_ids # {}
    /\ \E w \in DOMAIN waitlist : waitlist[w].status = "waiting"

-----------------------------------------------------------------------------
(* Equipment stock through the life cycle *)

Attached(b, e) == IF e \in bookings[b].equipment_ids THEN 1 ELSE 0

\* C5: a successful action_confirm takes exactly one unit of each equipment
\* item attached to the booking and none of any other item; creating a
\* booking (a draft, with or without equipment) changes no stock level.
C5_ConfirmTakesOneOfEachAttached ==
    [][/\ \A b \in DOMAIN bookings :
            Calls("action_confirm", b) /\ last'.ok
            => \A e \in EquipmentIds :
                 equipment'[e].quantity_available
                    = equipment[e].quantity_available - Attached(b, e)
       /\ last'.op = "create" => equipment' = equipment]_vars

\* Two bookings that include the racket are confirmed, the second just now,
\* and two rackets are out
C5_TwoConfirmedTwoOut ==
    /\ Len(bookings) = 2
    /\ \A b \in DOMAIN bookings :
         bookings[b].status = "confirmed" /\ "racket" \in bookings[b].equipment_ids
    /\ equipment["racket"].quantity_available
          = equipment["racket"].total_quantity - 2
    /\ last.op = "action_confirm"
    /\ last.ok

\* C6: action_complete or action_cancel of a booking, directly after the
\* action_confirm that confirmed it from draft, leaves every stock level as it
\* was before that action_confirm.
C6_CompleteOrCancelRestoresStock ==
    [][/\ last.op = "action_confirm"
       /\ last.ok
       /\ last'.op \in {"action_complete", "action_cancel"}
       /\ last'.id = last.id
       => \A e \in EquipmentIds :
            equipment'[e].quantity_available = last.pre[e]]_vars

\* A booking with both items was completed and both items are back in full
C6_CompletedWithBothItems ==
    /\ last.op = "action_complete"
    /\ last.ok
    /\ bookings[last.id].equipment_ids = {"racket", "balls"}
    /\ \A e \in EquipmentIds :
         equipment[e].quantity_available = equipment[e].total_quantity

\* C7: action_confirm on a draft booking with an attached item out of stock
\* raises; the booking stays as it was (a draft) and no stock level changes,
\* not even that of an attached item that was in stock.
C7_ConfirmWithoutStockChangesNothing ==
    [][\A b \in DOMAIN bookings :
         /\ Calls("action_confirm", b)
         /\ bookings[b].status = "draft"
         /\ \E e \in bookings[b].equipment_ids :
              equipment[e].quantity_available = 0
         => /\ ~last'.ok
            /\ bookings' = bookings
            /\ equipment' = equipment]_vars

\* action_confirm was refused for the balls, which are out, on a booking that
\* also includes the racket, which is in stock
C7_RefusedWithRacketInStock ==
    /\ last.op = "action_confirm"
    /\ ~last.ok
    /\ last.errs = {"equipment"}
    /\ bookings[last.id].status = "draft"
    /\ bookings[last.id].equipment_ids = {"racket", "balls"}
    /\ equipment["balls"].quantity_available = 0
    /\ equipment["racket"].quantity_available > 0

-----------------------------------------------------------------------------
(* Stock levels *)

\* C8: every stock level stays within 0..total_quantity; checkout_equipment
\* of more units than are available and return_equipment beyond the total
\* raise and leave the stock level as it was.
C8_StockWithinTotal ==
    /\ [](\A e \in EquipmentIds :
            /\ 0 <= equipment[e].quantity_available
            /\ equipment[e].quantity_available <= equipment[e].total_quantity)
    /\ [][\A e \in EquipmentIds :
            (\/ /\ last'.op = "checkout_equipment"
                /\ last'.id = e
                /\ equipment[e].quantity_available < last'.arg
             \/ /\ last'.op = "return_equipment"
                /\ last'.id = e
                /\ equipment[e].quantity_available + last'.arg
                      > equipment[e].total_quantity)
            => ~last'.ok /\ equipment' = equipment]_vars

\* return_equipment of two rackets was refused while one racket was out
C8_ReturnRefused ==
    /\ last.op = "return_equipment"
    /\ last.id = "racket"
    /\ last.arg = 2
    /\ ~last.ok
    /\ equipment["racket"].quantity_available
          = equipment["racket"].total_quantity - 1
    /\ \E b \in DOMAIN bookings : bookings[b].status = "confirmed"

-----------------------------------------------------------------------------
(* Pricing *)

Abs(x) == IF x < 0 THEN 0 - x ELSE x

\* The step computes the cost of booking b: it stores b or reschedules it
Priced(b) == last'.op \in {"create", "write"} /\ last'.ok /\ last'.id = b

\* The memberships that entitle the customer of record r to a discount
Entitling(r) ==
    {m \in DOMAIN memberships :
        /\ memberships[m].member_id = r.customer_id
        /\ memberships[m].status = "active"
        /\ memberships[m].payment_status = "paid"
        /\ memberships[m].start_date <= DateOf(r.start_datetime)
        /\ DateOf(r.start_datetime) <= memberships[m].end_date}

\* Facility and equipment charge of record r, in hundredths of a cent
Charge(r) ==
    (facility_id(r.facility_id).hourly_rate
       + SumOver(EquipmentIds,
                 [e \in EquipmentIds |->
                     IF e \in r.equipment_ids THEN rental_rate(e) ELSE 0]))
    * r.duration

\* C9: total_cost is the facility charge plus the charge of each attached
\* item, both rate times duration, reduced once by the percentage of a
\* membership that applies to the customer (by none without one), not
\* negative and rounded to the cent: 64.00 for two hours at 25 with items at 5
\* and 2 and no membership, 48.00 for two hours at 25 with an item at 5 and a
\* membership of 20 %.
C9_TotalCost ==
    [][\A b \in DOMAIN bookings' :
         Priced(b) =>
           LET r == bookings'[b]
               percentages ==
                   IF Entitling(r) = {} THEN {0}
                   ELSE {memberships[m].discount_percentage :
                            m \in Entitling(r)}
           IN  /\ r.total_cost >= 0
               /\ \E p \in percentages :
                    2 * Abs(r.total_cost * 100 * 100 - Charge(r) * (100 - p))
                       <= 100 * 100
               /\ /\ r.duration = 200
                  /\ facility_id(r.facility_id).hourly_rate = 2500
                  /\ r.equipment_ids = {"racket", "balls"}
                  /\ percentages = {0}
                  => r.total_cost = 6400
               /\ /\ r.duration = 200
                  /\ facility_id(r.facility_id).hourly_rate = 2500
                  /\ r.equipment_ids = {"racket"}
                  /\ percentages = {20}
                  => r.total_cost = 4800]_vars

\* A booking of two hours with the racket was stored at 48.00 for a customer
\* with a membership of 20 %
C9_FortyEightWithMembership ==
    /\ last.op = "create"
    /\ last.ok
    /\ bookings[last.id].duration = 200
    /\ bookings[last.id].equipment_ids = {"racket"}
    /\ bookings[last.id].total_cost = 4800
    /\ \E m \in DOMAIN memberships :
         /\ memberships[m].member_id = bookings[last.id].customer_id
         /\ memberships[m].discount_percentage = 20
         /\ memberships[m].status = "active"
         /\ memberships[m].payment_status = "paid"

\* C10: the cost computed for a booking is below the full charge exactly when
\* the customer has an active, paid membership whose dates include the day
\* the booking starts.
C10_DiscountIffEntitled ==
    [][\A b \in DOMAIN bookings' :
         Priced(b) =>
           LET r == bookings'[b]
           IN  r.total_cost < RoundHalfUp(Charge(r), 100)
                  <=> Entitling(r) # {}]_vars

\* A booking on day 1 was stored at the full charge although its customer has
\* an active, paid membership: it starts on day 2
C10_FullChargeBeforeMembershipStarts ==
    /\ last.op = "create"
    /\ last.ok
    /\ DateOf(bookings[last.id].start_datetime) = 1
    /\ bookings[last.id].total_cost
          = RoundHalfUp(Charge(bookings[last.id]), 100)
    /\ \E m \in DOMAIN memberships :
         /\ memberships[m].member_id = bookings[last.id].customer_id
         /\ memberships[m].status = "active"
         /\ memberships[m].payment_status = "paid"
         /\ memberships[m].start_date = 2

-----------------------------------------------------------------------------
(* Refund on cancellation *)

\* The percentage the refund policy gives minutes before the start
PolicyPercentage(minutes) ==
    IF minutes >= 48 * MinutesPerHour THEN 100
    ELSE IF minutes >= 24 * MinutesPerHour THEN 50
    ELSE IF minutes >= 12 * MinutesPerHour THEN 25
    ELSE 0

\* C11: cancelling a confirmed booking of positive total_cost h hours before
\* its start records the percentage 100 for h >= 48, 50 for 24 <= h < 48, 25
\* for 12 <= h < 24 and 0 for h < 12 (a booking that has started included),
\* and the amount total_cost * percentage / 100, printed to the cent.
C11_RefundByHoursBeforeStart ==
    [][\A b \in DOMAIN bookings :
         /\ Calls("action_cancel", b)
         /\ last'.ok
         /\ bookings[b].status = "confirmed"
         /\ bookings[b].total_cost > 0
         => LET note == bookings'[b].notes[Len(bookings'[b].notes)]
                percentage ==
                    PolicyPercentage(bookings[b].start_datetime - now)
            IN  /\ note.kind = "cancellation"
                /\ note.refund_percentage = percentage
                /\ 2 * Abs(note.refund_amount * 100
                             - bookings[b].total_cost * percentage) <= 100]_vars

\* A confirmed booking was cancelled exactly twelve hours before its start
\* and a quarter of its cost is refunded
C11_QuarterAtTwelveHours ==
    /\ last.op = "action_cancel"
    /\ last.ok
    /\ bookings[last.id].start_datetime - now = 12 * MinutesPerHour
    /\ \E n \in DOMAIN bookings[last.id].notes :
         /\ bookings[last.id].notes[n].kind = "cancellation"
         /\ bookings[last.id].notes[n].refund_percentage = 25
         /\ bookings[last.id].notes[n].refund_amount > 0

-----------------------------------------------------------------------------
(* Recurring bookings *)

RECURSIVE Shift(_, _, _)
\* t moved k intervals of the recurrence type on
Shift(recurrence_type, t, k) ==
    IF k = 0 THEN t
    ELSE next_occurrence(recurrence_type, Shift(recurrence_type, t, k - 1))

\* The draft or confirmed bookings in the way of occurrence k of booking b
InTheWay(b, k) ==
    {e \in DOMAIN bookings :
        /\ bookings[e].facility_id = bookings[b].facility_id
        /\ bookings[e].status \in {"draft", "confirmed"}
        /\ Intersect(bookings[e].start_datetime, bookings[e].end_datetime,
                     Shift(bookings[b].recurrence_type,
                           bookings[b].start_datetime, k),
                     Shift(bookings[b].recurrence_type,
                           bookings[b].end_datetime, k))}

\* The bookings the step adds
Added == (DOMAIN bookings') \ (DOMAIN bookings)

\* Added booking c is occurrence k of booking b
IsOccurrence(c, b, k) ==
    /\ bookings'[c].start_datetime
          = Shift(bookings[b].recurrence_type, bookings[b].start_datetime, k)
    /\ bookings'[c].end_datetime
          = Shift(bookings[b].recurrence_type, bookings[b].end_datetime, k)

\* C12: confirming a recurring booking with recurrence_count = n, no end date
\* and nothing in the way adds exactly n bookings, the k-th (k = 1..n) k
\* intervals after the parent.
C12_CountChildren ==
    [][\A b \in DOMAIN bookings :
         /\ Calls("action_confirm", b)
         /\ last'.ok
         /\ bookings[b].is_recurring
         /\ bookings[b].recurrence_end_date = NoDate
         /\ \A k \in 1..bookings[b].recurrence_count : InTheWay(b, k) = {}
         => /\ Cardinality(Added) = bookings[b].recurrence_count
            /\ \A k \in 1..bookings[b].recurrence_count :
                 \E c \in Added : IsOccurrence(c, b, k)]_vars

\* A daily series of three was confirmed and has two children, one and two
\* days after the parent
C12_TwoChildrenOfThree ==
    /\ last.op = "action_confirm"
    /\ last.ok
    /\ bookings[last.id].recurrence_count = 3
    /\ bookings[last.id].recurrence_type = "daily"
    /\ {c \in DOMAIN bookings : bookings[c].parent_booking_id = last.id}
          = {2, 3}
    /\ bookings[2].start_datetime = bookings[last.id].start_datetime + Day
    /\ bookings[3].start_datetime = bookings[last.id].start_datetime + 2 * Day

\* The step runs the generation for booking b: called on its own, or from an
\* action_confirm that got as far
Generates(b) ==
    /\ bookings[b].is_recurring
    /\ \/ Calls("generate_recurring_bookings", b)
       \/ /\ Calls("action_confirm", b)
          /\ last'.ok \/ last'.errs = {"recurrence"}

Reached(b) == 1..(bookings[b].recurrence_count - 1)

-----------------------------------------------------------------------------
(* Waitlist notification *)

\* The entries that wait for the slot of booking b: same facility, waiting,
\* no preferred date or one within two days of the day b starts
Eligible(b) ==
    {w \in DOMAIN waitlist :
        /\ waitlist[w].facility_id = bookings[b].facility_id
        /\ waitlist[w].status = "waiting"
        /\ \/ waitlist[w].preferred_date = NoDate
           \/ Abs(waitlist[w].preferred_date
                    - DateOf(bookings[b].start_datetime)) <= 2}

\* The entries the step changes
Touched == {w \in DOMAIN waitlist : waitlist'[w] # waitlist[w]}

\* C15: when a cancellation finds several waiting entries that match, exactly
\* one becomes notified, and none that matches was created before it.
C15_OldestNotifiedFirst ==
    [][\A b \in DOMAIN bookings :
         Calls("action_cancel", b) /\ last'.ok /\ Eligible(b) # {}
         => \E w \in Eligible(b) :
              /\ {v \in DOMAIN waitlist :
                    waitlist'[v].status = "notified"
                       /\ waitlist[v].status # "notified"} = {w}
              /\ \A v \in Eligible(b) :
                   waitlist[w].create_date <= waitlist[v].create_date]_vars

\* Of two entries that matched a cancellation the older is notified and the
\* younger still waits
C15_YoungerStillWaits ==
    /\ last.op = "action_cancel"
    /\ last.ok
    /\ Len(waitlist) = 2
    /\ waitlist[1].status = "notified"
    /\ waitlist[2].status = "waiting"
    /\ waitlist[1].create_date < waitlist[2].create_date
    /\ waitlist[1].facility_id = bookings[last.id].facility_id
    /\ waitlist[2].facility_id = bookings[last.id].facility_id
    /\ waitlist[2].preferred_date = NoDate

\* C16: the cancellation of a draft or confirmed booking notifies an entry
\* only if it is of the same facility, waiting and without preferred date or
\* with one within two days of the booking's start, and notifies one whenever
\* there is such an entry; without one the cancellation succeeds all the same
\* and no entry changes.
C16_NotifiedIffEligible ==
    [][\A b \in DOMAIN bookings :
         Calls("action_cancel", b) /\ bookings[b].status \in ActiveStatuses
         => /\ last'.ok
            /\ Touched \subseteq Eligible(b)
            /\ Touched = {} <=> Eligible(b) = {}
            /\ \A w \in Touched :
                 waitlist'[w] = [waitlist[w] EXCEPT !.status = "notified",
                                                   !.notification_sent = TRUE,
                                                   !.write_date = now]]_vars

\* A booking of day 3 was cancelled while the only waiting entry of its
\* facility prefers day 6: the entry still waits
C16_PreferredDayTooLate ==
    /\ last.op = "action_cancel"
    /\ last.ok
    /\ \E w \in DOMAIN waitlist :
         /\ waitlist[w].facility_id = bookings[last.id].facility_id
         /\ waitlist[w].preferred_date = 6
         /\ waitlist[w].status = "waiting"
    /\ \A w \in DOMAIN waitlist :
         waitlist[w].facility_id = bookings[last.id].facility_id
            => waitlist[w].preferred_date = 6

\* C17: cancelling a booking that was a draft changes the status and
\* notification_sent of no waitlist entry.
C17_DraftCancelLeavesWaitlist ==
    [][\A b \in DOMAIN bookings :
         Calls("action_cancel", b) /\ bookings[b].status = "draft"
         => \A w \in DOMAIN waitlist :
              /\ waitlist'[w].status = waitlist[w].status
              /\ waitlist'[w].notification_sent
                    = waitlist[w].notification_sent]_vars

\* A draft booking was cancelled and an entry that waited for its facility is
\* notified
C17_NotifiedByDraftCancel ==
    /\ last.op = "action_cancel"
    /\ last.ok
    /\ bookings[last.id].notes[1].refund_percentage = 0
    /\ \A b \in DOMAIN bookings : bookings[b].status # "confirmed"
    /\ \E w \in DOMAIN waitlist :
         /\ waitlist[w].status = "notified"
         /\ waitlist[w].facility_id = bookings[last.id].facility_id

-----------------------------------------------------------------------------
(* Scheduled actions *)

\* Entry w was notified and last written more than 48 hours ago, or waits for
\* a preferred date before today
Overdue(w) ==
    \/ /\ waitlist[w].status = "notified"
       /\ now - waitlist[w].write_date > 48 * MinutesPerHour
    \/ /\ waitlist[w].status = "waiting"
       /\ waitlist[w].preferred_date # NoDate
       /\ waitlist[w].preferred_date < DateOf(now)

\* C18: one run of the waitlist expiry sweep sets exactly the overdue entries
\* to expired (notified and last written more than 48 hours ago, or waiting
\* with a preferred date before today) and leaves every other entry, and
\* every other field of the expired ones, as it was.
C18_ExpiresExactlyOverdue ==
    [][last'.op = "_cron_expire_old_waitlist_entries"
       => /\ DOMAIN waitlist' = DOMAIN waitlist
          /\ \A w \in DOMAIN waitlist :
               IF Overdue(w)
               THEN waitlist'[w] = [waitlist[w] EXCEPT !.status = "expired",
                                                       !.write_date = now]
               ELSE waitlist'[w] = waitlist[w]
          /\ UNCHANGED <<bookings, equipment, memberships, now>>]_vars

\* A run expired the entry notified three days ago and left the one notified
\* exactly 48 hours ago
C18_ExpiredAfterThreeDays ==
    /\ last.op = "_cron_expire_old_waitlist_entries"
    /\ last.arg = 1
    /\ Len(waitlist) = 2
    /\ \E w, v \in DOMAIN waitlist :
         /\ waitlist[w].status = "expired"
         /\ waitlist[w].notification_sent
         /\ waitlist[w].write_date = now
         /\ waitlist[v].status = "notified"
         /\ waitlist[v].write_date = now - 48 * MinutesPerHour

\* C19: after a run of the waitlist expiry sweep, of the archival of completed
\* bookings or of the membership expiry sweep, another run of it at the same
\* clock would write nothing: two runs leave the state one run leaves.
C19_SecondRunChangesNothing ==
    [][/\ last'.op = "_cron_expire_old_waitlist_entries"
          => expire_old_waitlist_entries(waitlist', now') = waitlist'
       /\ last'.op = "_cron_archive_expired_bookings"
          => archive_expired_bookings(bookings', now') = bookings'
       /\ last'.op = "_cron_update_expired_memberships"
          => update_expired_memberships(memberships', now')
                = memberships']_vars

\* The archival ran again on a clock at which a booking was archivable and
\* is archived, and wrote nothing
C19_ArchivedOnce ==
    /\ last.op = "_cron_archive_expired_bookings"
    /\ last.arg = 0
    /\ DateOf(now) = 31
    /\ \E b \in DOMAIN bookings :
         /\ ~bookings[b].active
         /\ bookings[b].status = "completed"
         /\ bookings[b].end_datetime < now - 30 * Day

\* C20: a run of the reminder sweep finds exactly the confirmed bookings that
\* start between now and now + 24 hours, and sends no reminder for a booking
\* that already got one.
C20_NoSecondReminder ==
    [][last'.op = "_cron_send_booking_reminders"
       => /\ last'.arg = {b \in DOMAIN bookings :
                            /\ bookings[b].status = "confirmed"
                            /\ now <= bookings[b].start_datetime
                            /\ bookings[b].start_datetime
                                  <= now + 24 * MinutesPerHour}
          /\ \A b \in DOMAIN bookings :
               bookings[b].reminders >= 1
                  => bookings'[b].reminders = bookings[b].reminders]_vars

\* A confirmed booking that starts within 24 hours got its second reminder
C20_RemindedTwice ==
    /\ last.op = "_cron_send_booking_reminders"
    /\ \E b \in last.arg :
         /\ bookings[b].reminders = 2
         /\ bookings[b].status = "confirmed"
         /\ now <= bookings[b].start_datetime
         /\ bookings[b].start_datetime <= now + 24 * MinutesPerHour

-----------------------------------------------------------------------------
(* Errors that are logged *)

\* C21: whether its mails are sent or fail, action_confirm on a draft whose
\* slot is free and whose equipment is in stock ends without error with the
\* booking confirmed and one unit of each attached equipment checked out, and
\* action_cancel on a draft or confirmed booking ends without error with the
\* booking cancelled and the equipment of a confirmed one returned.
C21_MailFailureBlocksNothing ==
    [][\A b \in DOMAIN bookings :
         /\ /\ Calls("action_confirm", b)
            /\ bookings[b].status = "draft"
            /\ Blocking(b, Vals(bookings[b])) = {}
            /\ \A e \in bookings[b].equipment_ids :
                 equipment[e].quantity_available >= 1
            => /\ last'.ok
               /\ bookings'[b].status = "confirmed"
               /\ \A e \in EquipmentIds :
                    equipment'[e].quantity_available
                       = equipment[e].quantity_available
                            - (IF e \in bookings[b].equipment_ids THEN 1
                               ELSE 0)
         /\ /\ Calls("action_cancel", b)
            /\ bookings[b].status \in ActiveStatuses
            => /\ last'.ok
               /\ bookings'[b].status = "cancelled"
               /\ \A e \in EquipmentIds :
                    equipment'[e].quantity_available
                       = equipment[e].quantity_available
                            + (IF /\ e \in bookings[b].equipment_ids
                                  /\ bookings[b].status = "confirmed"
                               THEN 1 ELSE 0)]_vars

\* A confirmed booking with a racket was cancelled, both mails failed: the
\* booking is cancelled, the racket back and the waiting customer notified
C21_CancelledThoughMailsFailed ==
    /\ last.op = "action_cancel"
    /\ last.ok
    /\ last.arg.mail = "failed"
    /\ last.arg.notification = "failed"
    /\ bookings[last.id].status = "cancelled"
    /\ bookings[last.id].notes[1].refund_percentage = 100
    /\ equipment["racket"].quantity_available = total_quantity("racket")
    /\ waitlist[1].status = "notified"

\* C22: action_confirm on a draft recurring booking whose slot is free and
\* whose equipment is in stock leaves the booking confirmed and its equipment
\* checked out, also when no child booking could be generated.
C22_ConfirmedThoughNoChild ==
    [][\A b \in DOMAIN bookings :
         /\ Calls("action_confirm", b)
         /\ bookings[b].status = "draft"
         /\ bookings[b].is_recurring
         /\ Blocking(b, Vals(bookings[b])) = {}
         /\ \A e \in bookings[b].equipment_ids :
              equipment[e].quantity_available >= 1
         => /\ bookings'[b].status = "confirmed"
            /\ \A e \in bookings[b].equipment_ids :
                 equipment'[e].quantity_available
                    = equipment[e].quantity_available - 1]_vars

\* The confirmation of a series with a racket was refused because every
\* occurrence is taken: the series is still a draft and no racket is out
C22_DraftAfterFailedGeneration ==
    /\ last.op = "action_confirm"
    /\ ~last.ok
    /\ last.errs = {"recurrence"}
    /\ bookings[last.id].status = "draft"
    /\ bookings[last.id].is_recurring
    /\ bookings[last.id].equipment_ids = {"racket"}
    /\ equipment["racket"].quantity_available = total_quantity("racket")

-----------------------------------------------------------------------------
(* Dates and operating hours *)

\* C23: every stored booking ends after it starts; a create or an update
\* whose end is not after its start is rejected with the validation error of
\* the dates and changes no booking.
C23_EndAfterStart ==
    [][/\ \A b \in DOMAIN bookings' :
            bookings'[b].end_datetime > bookings'[b].start_datetime
       /\ last'.op \in {"create", "write"}
             /\ last'.arg.end_datetime <= last'.arg.start_datetime
          => /\ ~last'.ok
             /\ "dates" \in last'.errs
             /\ bookings' = bookings]_vars

\* A stored booking was refused a period that ends at its start
C23_EmptyPeriodRefused ==
    /\ last.op = "write"
    /\ ~last.ok
    /\ last.errs = {"dates"}
    /\ last.arg.end_datetime = last.arg.start_datetime
    /\ bookings[last.id].end_datetime > bookings[last.id].start_datetime

\* The time of day t lies within the operating hours of facility f
WithinHours(f, t) ==
    /\ facility_id(f).operating_hours_start <= TimeOfDay(t)
    /\ TimeOfDay(t) <= facility_id(f).operating_hours_end

\* C24: every stored booking starts and ends at a time of day within the
\* operating hours of its facility, bookings over several days included.
C24_StartsAndEndsWithinHours ==
    \A b \in DOMAIN bookings :
        /\ WithinHours(bookings[b].facility_id, bookings[b].start_datetime)
        /\ WithinHours(bookings[b].facility_id, bookings[b].end_datetime)

\* A booking from 21:00 to 9:00 of the next day was accepted on a facility
\* that closes at 20:00
C24_StartsAfterClosing ==
    /\ last.op = "create"
    /\ last.ok
    /\ bookings[last.id].start_datetime = At(0, 21)
    /\ bookings[last.id].end_datetime = At(1, 9)
    /\ facility_id(bookings[last.id].facility_id).operating_hours_end
          = 20 * MinutesPerHour

-----------------------------------------------------------------------------
(* Availability query *)

\* The draft and confirmed bookings of facility f that intersect the hour
\* from h:00 on the date
Taking(f, date, h) ==
    {b \in DOMAIN bookings :
        /\ bookings[b].facility_id = f
        /\ bookings[b].status \in {"draft", "confirmed"}
        /\ bookings[b].start_datetime < At(date, h + 1)
        /\ bookings[b].end_datetime > At(date, h)}

\* The hours of the one-hour slots within the operating hours of f
HoursOpen(f) ==
    {h \in 0..(HoursPerDay - 1) :
        /\ facility_id(f).operating_hours_start <= h * MinutesPerHour
        /\ (h + 1) * MinutesPerHour <= facility_id(f).operating_hours_end}

\* C25: the slots check_availability returns for a facility and a date are
\* exactly the one-hour slots within the operating hours that no draft or
\* confirmed booking of the facility intersects, bookings that started on an
\* earlier day included.
C25_SlotsReturnedAreFree ==
    last.op = "check_availability"
    => last.arg.available_slots
          = {h \in HoursOpen(last.id) : Taking(last.id, last.arg.date, h) = {}}

\* The query for day 1 returned the slot from 8:00 while a booking from 18:00
\* of day 0 to 9:00 of day 1 holds the facility
C25_TakenSlotReturned ==
    /\ last.op = "check_availability"
    /\ last.arg.date = 1
    /\ 8 \in last.arg.available_slots
    /\ \E b \in DOMAIN bookings :
         /\ bookings[b].facility_id = last.id
         /\ bookings[b].status \in {"draft", "confirmed"}
         /\ bookings[b].start_datetime = At(0, 18)
         /\ bookings[b].end_datetime = At(1, 9)

-----------------------------------------------------------------------------
(* Check-in *)

\* C26: the check-in of a confirmed booking succeeds and sets its status to
\* in_progress, and action_complete on a booking in progress succeeds, sets
\* the status to completed and returns one unit of each attached equipment.
C26_CheckInThenComplete ==
    [][\A b \in DOMAIN bookings :
         /\ Calls("write_checkin", b) /\ bookings[b].status = "confirmed"
            => /\ last'.ok
               /\ bookings'[b].status = "in_progress"
         /\ Calls("action_complete", b) /\ bookings[b].status = "in_progress"
            => /\ last'.ok
               /\ bookings'[b].status = "completed"
               /\ \A e \in bookings[b].equipment_ids :
                    equipment'[e].quantity_available
                       = equipment[e].quantity_available + 1]_vars

\* The check-in of a confirmed booking with a racket was refused: the booking
\* is still confirmed and the racket still out
C26_CheckInRefused ==
    /\ last.op = "write_checkin"
    /\ ~last.ok
    /\ last.errs = {"value"}
    /\ bookings[last.id].status = "confirmed"
    /\ "racket" \in bookings[last.id].equipment_ids
    /\ equipment["racket"].quantity_available < total_quantity("racket")

-----------------------------------------------------------------------------
(* Memberships *)

\* C27: a membership whose status is active has payment_status paid, and
\* right after a run of the expiry sweep no active membership has an end_date
\* before today.
C27_ActiveOnlyIfPaid ==
    /\ \A m \in DOMAIN memberships :
         memberships[m].status = "active"
            => memberships[m].payment_status = "paid"
    /\ last.op = "_cron_update_expired_memberships"
          => \A m \in DOMAIN memberships :
               memberships[m].status = "active"
                  => ~(memberships[m].end_date < DateOf(now))

\* A paid membership was renewed: it is active with its payment pending
C27_RenewedUnpaid ==
    /\ last.op = "membership_action_renew"
    /\ last.ok
    /\ memberships[last.id].status = "active"
    /\ memberships[last.id].payment_status = "pending"
    /\ memberships[last.id].end_date = 61

-----------------------------------------------------------------------------
(* Time slots *)

\* Slot sl has no booking assigned and no draft or confirmed booking of its
\* facility intersects it
Free(sl) ==
    /\ timeslots[sl].booking_id = 0
    /\ \A b \in DOMAIN bookings :
         ~(/\ bookings[b].facility_id = timeslots[sl].facility_id
           /\ bookings[b].status \in {"draft", "confirmed"}
           /\ bookings[b].start_datetime
                 < timeslots[sl].date * Day + timeslots[sl].end_time
           /\ bookings[b].end_datetime
                 > timeslots[sl].date * Day + timeslots[sl].start_time)

\* C28: in every state the is_available flag of a time slot is true exactly
\* when the slot has no booking assigned and no draft or confirmed booking of
\* its facility intersects it.
C28_FlagIffFree ==
    \A sl \in DOMAIN timeslots : timeslots[sl].is_available <=> Free(sl)

\* A booking was created over a slot that existed before: the slot is still
\* flagged available
C28_FlagStaleAfterCreate ==
    /\ last.op = "create"
    /\ last.ok
    /\ \E sl \in DOMAIN timeslots :
         /\ timeslots[sl].is_available
         /\ timeslots[sl].booking_id = 0
         /\ timeslots[sl].facility_id = bookings[last.id].facility_id
         /\ bookings[last.id].status = "draft"
         /\ bookings[last.id].start_datetime
               < timeslots[sl].date * Day + timeslots[sl].end_time
         /\ bookings[last.id].end_datetime
               > timeslots[sl].date * Day + timeslots[sl].start_time

-----------------------------------------------------------------------------
(* Visibility of bookings *)

IsManager(u) == "group_sports_manager" \in groups_id(u)

Own(u, r) == r.customer_id = partner_id(u)

-----------------------------------------------------------------------------
(* Requests side by side *)

\* The bookings record i of bs shares time with on its facility
Clash(bs, i) ==
    {j \in DOMAIN bs \ {i} :
        /\ bs[j].facility_id = bs[i].facility_id
        /\ bs[j].status \in {"draft", "confirmed"}
        /\ bs[j].start_datetime < bs[i].end_datetime
        /\ bs[i].start_datetime < bs[j].end_datetime}

\* C30: the booking a transaction commits shares time only with bookings
\* that were committed between its overlap check and its own commit, so a
\* request that runs alone, or commits before the next one checks, never
\* adds a double booking; two requests that both check before either
\* commits both succeed
C30_ClashOnlyWithUnseen ==
    [][/\ \A t \in TxnIds :
            txns[t].pc = "created" /\ txns'[t].pc = "idle" =>
               /\ last'.ok
               /\ Len(bookings') = Len(bookings) + 1
               /\ Clash(bookings', Len(bookings'))
                     \subseteq (txns[t].seen + 1)..Len(bookings)
       /\ last'.op = "create" /\ last'.ok =>
               Clash(bookings', Len(bookings')) = {}]_vars

\* Two requests for the tennis court, 10:00 to 12:00 and 11:00 to 13:00,
\* both checked before either committed: both bookings are stored as draft
C30_BothCommitted ==
    /\ Len(bookings) = 2
    /\ last.op = "txn_commit"
    /\ \A i \in 1..2 : bookings[i].status = "draft"
    /\ Clash(bookings, 1) = {2}

-----------------------------------------------------------------------------
(* Confirmations of bookings that share an item *)

\* The confirmed bookings that include item e
Holding(bs, e) ==
    {i \in DOMAIN bs : bs[i].status = "confirmed" /\ e \in bs[i].equipment_ids}

\* Transaction t ends in this step, after another transaction changed the
\* stock of item e that t had read as 1
EndsAfterOther(t, e) ==
    /\ txns[t].pc = "confirming"
    /\ txns'[t].pc = "idle"
    /\ e \in txns[t].vals.bookings[txns[t].vals.booking].equipment_ids
    /\ txns[t].vals.equipment[e].quantity_available = 1
    /\ equipment[e] # txns[t].vals.equipment[e]

-----------------------------------------------------------------------------
(* Completed bookings *)

\* C32: a completed booking stays completed in every step; action_confirm,
\* action_complete, action_cancel and action_reset_to_draft on it are
\* refused and change neither bookings nor stock; the archival sweep
\* changes at most its active flag
C32_CompletedStaysCompleted ==
    [][\A b \in DOMAIN bookings :
          bookings[b].status = "completed" =>
             /\ b \in DOMAIN bookings'
             /\ bookings'[b].status = "completed"
             /\ \A op \in {"action_confirm", "action_complete",
                           "action_cancel", "action_reset_to_draft"} :
                   Calls(op, b) =>
                      /\ ~last'.ok
                      /\ bookings' = bookings
                      /\ equipment' = equipment
             /\ last'.op = "_cron_archive_expired_bookings" =>
                   bookings'[b] = [bookings[b] EXCEPT
                                      !.active = bookings'[b].active]]_vars

\* An archived completed booking on which the reset to draft was refused
C32_ResetRefusedOnArchived ==
    /\ last.op = "action_reset_to_draft"
    /\ ~last.ok
    /\ bookings[last.id].status = "completed"
    /\ ~bookings[last.id].active

-----------------------------------------------------------------------------
(* Cancellation of a draft *)

\* C33: action_cancel on a draft booking leaves every quantity_available as
\* it was and records a refund of 0 percent and amount 0, however long
\* before the start it is called
C33_DraftCancelNoReturnNoRefund ==
    [][\A b \in DOMAIN bookings :
         /\ Calls("action_cancel", b)
         /\ last'.ok
         /\ bookings[b].status = "draft"
         => LET note == bookings'[b].notes[Len(bookings'[b].notes)]
            IN  /\ equipment' = equipment
                /\ bookings'[b].status = "cancelled"
                /\ note.kind = "cancellation"
                /\ note.refund_percentage = 0
                /\ note.refund_amount = 0]_vars

\* A booking with a racket cancelled sixty hours before its start, once and
\* without refund: it was a draft, and both rackets are in stock
C33_DraftCancelledSixtyHoursBefore ==
    /\ last.op = "action_cancel"
    /\ last.ok
    /\ bookings[last.id].start_datetime - now = 60 * MinutesPerHour
    /\ bookings[last.id].total_cost > 0
    /\ "racket" \in bookings[last.id].equipment_ids
    /\ Len(bookings[last.id].notes) = 1
    /\ bookings[last.id].notes[1].refund_percentage = 0
    /\ equipment["racket"].quantity_available = 2

-----------------------------------------------------------------------------
(* Recurrence until an end date *)

MaxOccurrences == 4

\* The occurrences of booking b within its limits: at most recurrence_count
\* of them when a count is set, none that starts after recurrence_end_date
\* when an end date is set
WithinLimits(b) ==
    {k \in 1..MaxOccurrences :
        /\ bookings[b].recurrence_count # 0
              => k <= bookings[b].recurrence_count
        /\ bookings[b].recurrence_end_date # NoDate
              => DateOf(Shift(bookings[b].recurrence_type,
                              bookings[b].start_datetime, k))
                    <= bookings[b].recurrence_end_date}

\* C34: a generation for a booking with an end date adds exactly the
\* occurrences within the limits that have nothing in their way: none that
\* starts after the end date, and with a count as well none beyond the one
\* of the two limits that is reached first
C34_ChildrenUntilFirstLimit ==
    [][\A b \in DOMAIN bookings :
         /\ Generates(b)
         /\ last'.ok
         /\ bookings[b].recurrence_end_date # NoDate
         => LET free == {k \in WithinLimits(b) : InTheWay(b, k) = {}}
            IN  /\ Cardinality(Added) = Cardinality(free)
                /\ \A k \in free : \E c \in Added : IsOccurrence(c, b, k)]_vars

\* A daily series of day 1 with count 2 until day 3 was confirmed with
\* nothing in its way and has one child, on day 2
C34_OneChildOfTwoUntilDayThree ==
    /\ last.op = "action_confirm"
    /\ last.ok
    /\ Len(bookings) = 2
    /\ bookings[1].recurrence_count = 2
    /\ bookings[1].recurrence_end_date = 3
    /\ bookings[1].status = "confirmed"
    /\ bookings[2].parent_booking_id = 1
    /\ DateOf(bookings[2].start_datetime) = 2

-----------------------------------------------------------------------------
(* Termination of the recurrence loop *)

\* C35: every generate_recurring_bookings call that passed its validation
\* leaves its loop and returns or raises
C35_LoopTerminates == (gen.pc = "loop") ~> (gen.pc = "idle")

\* The generation for a series with recurrence_count -1 and no end date
\* has returned after one iteration, with no child
C35_NegativeCountReturned ==
    /\ last.op = "generate_end"
    /\ last.ok
    /\ gen.pc = "idle"
    /\ bookings[last.id].recurrence_count = -1
    /\ bookings[last.id].recurrence_end_date = NoDate
    /\ \A c \in DOMAIN bookings : bookings[c].parent_booking_id # last.id

(* C36 *)

\* The status changes of a waitlist entry that C36 allows
ForwardTransitions ==
    {<<"waiting", "notified">>, <<"waiting", "booked">>,
     <<"notified", "booked">>, <<"waiting", "expired">>,
     <<"notified", "expired">>}

\* C36: the status of a waitlist entry changes only from waiting to
\* notified, booked or expired and from notified to booked or expired, so no
\* entry returns to waiting and a booked or expired entry keeps its status
C36_OnlyForwardTransitions ==
    [][\A w \in DOMAIN waitlist :
          (waitlist'[w].status # waitlist[w].status)
              => (<<waitlist[w].status, waitlist'[w].status>>
                      \in ForwardTransitions)]_vars

\* A booked entry has been marked expired by a call of action_mark_expired
C36_BookedMarkedExpired ==
    /\ last.op = "action_mark_expired"
    /\ last.arg = "booked"
    /\ waitlist[last.id].status = "expired"

(* C37 *)

\* Entry w is waiting for a preferred date that has passed
WaitingPastDate(w) ==
    /\ w \in DOMAIN waitlist
    /\ waitlist[w].status = "waiting"
    /\ waitlist[w].preferred_date # NoDate
    /\ waitlist[w].preferred_date < DateOf(now)

\* C37: when the sweep keeps running and time keeps passing, every notified
\* waitlist entry is booked or expired in the end, and every waiting entry
\* whose preferred date has passed is notified, booked or expired in the end
C37_NotifiedAndPastEntriesLeave ==
    \A w \in WaitlistIds :
        /\ (w \in DOMAIN waitlist /\ waitlist[w].status = "notified")
               ~> (/\ w \in DOMAIN waitlist
                   /\ waitlist[w].status \in {"booked", "expired"})
        /\ WaitingPastDate(w)
               ~> (/\ w \in DOMAIN waitlist
                   /\ waitlist[w].status \in
                          {"notified", "booked", "expired"})

\* A run of the sweep has expired a notified entry and an entry whose date
\* had passed
C37_SweepExpiredBoth ==
    /\ last.op = "_cron_expire_old_waitlist_entries"
    /\ last.arg = 2
    /\ \E w \in DOMAIN waitlist :
          /\ waitlist[w].status = "expired"
          /\ waitlist[w].notification_sent
          /\ waitlist[w].write_date = now
    /\ \E w \in DOMAIN waitlist :
          /\ waitlist[w].status = "expired"
          /\ ~waitlist[w].notification_sent
          /\ waitlist[w].preferred_date # NoDate
          /\ waitlist[w].write_date = now

(* C38 *)

\* C38: after any sequence of draft creations, confirmations, completions,
\* cancellations and resets to draft, the available quantity of each
\* equipment item is its total quantity less the number of confirmed
\* bookings that include it
C38_StockConserved ==
    \A e \in EquipmentIds :
        equipment[e].quantity_available =
            equipment[e].total_quantity - Cardinality(Holding(bookings, e))

\* A booking with equipment has been reset to draft, and its items are still
\* short of the stock although no confirmed booking includes them
C38_ResetKeptEquipment ==
    /\ last.op = "action_reset_to_draft"
    /\ last.ok
    /\ bookings[last.id].status = "draft"
    /\ bookings[last.id].equipment_ids # {}
    /\ \A e \in bookings[last.id].equipment_ids :
          /\ Holding(bookings, e) = {}
          /\ equipment[e].quantity_available < equipment[e].total_quantity

(* C39 *)

\* C39: action_cancel on a booking that is already cancelled changes no
\* booking, no equipment quantity and no waitlist entry
C39_RecancelChangesNothing ==
    [][\A b \in DOMAIN bookings :
          (/\ bookings[b].status = "cancelled"
           /\ last'.op = "action_cancel"
           /\ last'.id = b)
              => (/\ bookings' = bookings
                  /\ equipment' = equipment
                  /\ waitlist' = waitlist)]_vars

\* The only booking has been cancelled twice and has two cancellation notes,
\* and both waitlist entries are notified
C39_TwoNotifiedByOneBooking ==
    /\ last.op = "action_cancel"
    /\ last.ok
    /\ Len(bookings) = 1
    /\ Len(bookings[1].notes) = 2
    /\ Len(waitlist) = 2
    /\ \A w \in DOMAIN waitlist : waitlist[w].status = "notified"

(* C40 *)

\* C40: action_complete and action_cancel on a confirmed booking never fail
\* on the return of its equipment, also when the booking was created as
\* confirmed
C40_ConfirmedNeverStuck ==
    [][\A b \in DOMAIN bookings :
          (/\ bookings[b].status = "confirmed"
           /\ last'.op \in {"action_complete", "action_cancel"}
           /\ last'.id = b)
              => (last'.ok /\ "equipment" \notin last'.errs)]_vars

\* action_complete has failed on the equipment return of the only booking,
\* which is confirmed while every item is in stock in full
C40_CompleteRefusedAtFullStock ==
    /\ last.op = "action_complete"
    /\ ~last.ok
    /\ "equipment" \in last.errs
    /\ Len(bookings) = 1
    /\ bookings[1].status = "confirmed"
    /\ \A e \in EquipmentIds :
          equipment[e].quantity_available = equipment[e].total_quantity

====
